---------------------------- MODULE Spec2Model ----------------------------
(***************************************************************************)
(* Model of the log-signal-processor: the dialect parsers (dbparsers),     *)
(* the signal generators and the SignalProcessor (logprocessor), and the   *)
(* display-name registry used by the loggers.                              *)
(*                                                                         *)
(* Go strings are modelled as sequences of runes (code points); UTF8 gives *)
(* the bytes the program indexes and counts with s[i] and len(s).          *)
(* float64 results are modelled as exact reals of the form                 *)
(*     (1/den) * SUM_i num[i] * log2(Primes[i])                            *)
(* (log2(2) = 1, so the integers are included); IEEE rounding is not       *)
(* modelled.                                                               *)
(***************************************************************************)
EXTENDS Integers, Sequences, FiniteSets, TLC

VARIABLES
    \* logprocessor: the processors created so far and the package-level names
    processors,            \* sequence of SignalProcessor: [generators |-> Seq]
    signalGeneratorNames,  \* var signalGeneratorNames []string (package level)
    added,                 \* history: per processor, the generators in the order AddGenerator received them
    last,                  \* the last call made and what it returned
    \* dbparsers: one ParseLog call
    parser, rawLog, parsed,
    \* levenshteinDistance: the two strings, the edit script applied so far, the result
    s1, s2, edits, dist,
    \* generators: one GenerateSignal call
    genKind, genField, genLogData, genSignal,
    \* calculateEntropy: the argument and the result
    entIn, entOut,
    \* logsimulator/encryption.go: the caller's config and value, crypto/rand's
    \* reader, the Encryptor obtained from GetEncryptor, the last call's results
    encConfig, encValue, secureRand, encryptor, encOut,
    \* history: the key and the IV/nonce of every Encrypt call that produced output
    encCalls,
    \* main: the wizard's answers, the generated logs, the position in the two
    \* loops, the field's processor, the AnomalyInputs logged so far
    cliConfig, logs, pc, processor, emitted,
    \* cli: the bubbletea Model, whether the program runs, the key events
    \* delivered so far, history: the rejected Enter since the step was entered,
    \* what GetConfig returned
    model, program, keyCount, rejection, getConfig

procVars  == <<processors, signalGeneratorNames, added, last>>
parseVars == <<parser, rawLog, parsed>>
levVars   == <<s1, s2, edits, dist>>
genVars   == <<genKind, genField, genLogData, genSignal>>
entVars   == <<entIn, entOut>>
cryptVars == <<encConfig, encValue, secureRand, encryptor, encOut>>
callVars  == <<encCalls>>
mainVars  == <<cliConfig, logs, pc, processor, emitted>>
wizVars   == <<model, program, keyCount, rejection, getConfig>>
vars      == <<procVars, parseVars, levVars, genVars, entVars, cryptVars, callVars, mainVars, wizVars>>

-----------------------------------------------------------------------------
(* Bounds *)

MaxLen        == 3   \* runes per string in the edit-distance runs
MaxEdits      == 3   \* single-rune edits applied to s2
MaxEntLen     == 4   \* runes per string in the entropy runs
MaxAdds       == 2   \* AddGenerator calls in total
MaxPlainLen   == 33  \* runes of the plaintexts padPKCS7 is run on
MaxEncrypts   == 2   \* Encrypt calls in the runs that repeat a call
MaxLogs       == 3   \* raw logs in a batch
MaxKeys       == 11  \* key events delivered to the wizard, any key
MaxPathKeys   == 14  \* key events delivered to the wizard by a user who does not quit

-----------------------------------------------------------------------------
(* Go strings *)

\* 'a', 'b' (one byte each in UTF-8) and U+00E9 (two bytes)
Runes == {97, 98, 233}

RECURSIVE StringsUpTo(_)
StringsUpTo(n) ==
    IF n = 0 THEN {<<>>}
    ELSE LET shorter == StringsUpTo(n - 1)
         IN  shorter \cup {Append(s, r) : s \in {t \in shorter : Len(t) = n - 1}, r \in Runes}

\* UTF-8 encoding of one rune (code points below U+0800)
EncodeRune(r) ==
    IF r < 128 THEN <<r>>
    ELSE <<192 + (r \div 64), 128 + (r % 64)>>

\* the bytes of a Go string
RECURSIVE UTF8(_)
UTF8(s) == IF s = <<>> THEN <<>> ELSE EncodeRune(Head(s)) \o UTF8(Tail(s))

\* len(s): the number of bytes
GoLen(s) == Len(UTF8(s))

-----------------------------------------------------------------------------
(* float64 values, exactly *)

\* enough for the lengths and counts up to 10 that the runs reach
Primes == <<2, 3, 5, 7>>
PIdx   == 1..Len(Primes)

Abs(n) == IF n < 0 THEN -n ELSE n

RECURSIVE GCD(_, _)
GCD(a, b) == IF b = 0 THEN a ELSE GCD(b, a % b)

RECURSIVE VecGCD(_, _, _)
VecGCD(v, i, g) == IF i > Len(v) THEN g ELSE VecGCD(v, i + 1, GCD(g, Abs(v[i])))

RNorm(x) ==
    LET g == VecGCD(x.num, 1, x.den)
    IN  [num |-> [i \in PIdx |-> x.num[i] \div g], den |-> x.den \div g]

RInt(n)  == [num |-> [i \in PIdx |-> IF i = 1 THEN n ELSE 0], den |-> 1]
RZero    == RInt(0)
RSub(x, y) ==
    RNorm([num |-> [i \in PIdx |-> x.num[i] * y.den - y.num[i] * x.den],
           den |-> x.den * y.den])
\* x * (n / d)
RScale(x, n, d) == RNorm([num |-> [i \in PIdx |-> x.num[i] * n], den |-> x.den * d])

RECURSIVE Expo(_, _)
Expo(n, p) == IF n % p = 0 THEN 1 + Expo(n \div p, p) ELSE 0

\* math.Log2(n / d) for positive integers n, d whose prime factors are in Primes
Log2Ratio(n, d) ==
    [num |-> [i \in PIdx |-> Expo(n, Primes[i]) - Expo(d, Primes[i])], den |-> 1]

-----------------------------------------------------------------------------
(* logprocessor/levenshtein.go *)

min(a, b, c) ==
    IF a < b THEN (IF a < c THEN a ELSE c)
    ELSE IF b < c THEN b ELSE c

LevCost(c1, c2) == IF c1 = c2 THEN 0 ELSE 1

\* a cell that forgets the deletion case
LevCell_NoDeletion(up, left, diag, cost) == min(left + 1, left + 1, diag + cost)

\* matrix[i][j] from matrix[i-1][j], matrix[i][j-1], matrix[i-1][j-1]
LevCell(up, left, diag, cost) == min(up + 1, left + 1, diag + cost)

\* row i of the matrix, filled left to right; row holds matrix[i][0..j-1]
RECURSIVE FillRow(_, _, _, _, _)
FillRow(prev, b1, b2, i, row) ==
    LET j == Len(row)
    IN  IF j > Len(b2) THEN row
        ELSE FillRow(prev, b1, b2, i,
                     Append(row, LevCell(prev[j + 1], row[j], prev[j],
                                         LevCost(b1[i], b2[j]))))

\* the last row of the matrix after rows 1..i are filled
RECURSIVE FillMatrix(_, _, _)
FillMatrix(b1, b2, i) ==
    IF i = 0 THEN [j \in 1..(Len(b2) + 1) |-> j - 1]
    ELSE FillRow(FillMatrix(b1, b2, i - 1), b1, b2, i, <<i>>)

levenshteinDistance(a, b) ==
    LET b1 == UTF8(a)
        b2 == UTF8(b)
    IN  IF Len(b1) = 0 THEN Len(b2)
        ELSE IF Len(b2) = 0 THEN Len(b1)
        ELSE FillMatrix(b1, b2, Len(b1))[Len(b2) + 1]

-----------------------------------------------------------------------------
(* logprocessor/entropy.go *)

\* freq[r]++ for every rune of s
Freq(s) == [r \in {s[i] : i \in 1..Len(s)} |-> Cardinality({i \in 1..Len(s) : s[i] = r})]

\* entropy -= p * math.Log2(p) over the buckets, p = count / length
RECURSIVE EntropySum(_, _, _, _)
EntropySum(freq, todo, length, entropy) ==
    IF todo = {} THEN entropy
    ELSE LET r == CHOOSE x \in todo : TRUE
             count == freq[r]
         IN  EntropySum(freq, todo \ {r}, length,
                        RSub(entropy, RScale(Log2Ratio(count, length), count, length)))

calculateEntropy(s) ==
    IF s = <<>> THEN RZero
    ELSE LET freq == Freq(s)
         IN  EntropySum(freq, DOMAIN freq, GoLen(s), RZero)

-----------------------------------------------------------------------------
(* Go values held in an interface{} *)

GoNil        == [type |-> "nil", val |-> 0]
GoString(s)  == [type |-> "string", val |-> s]
GoInt(n)     == [type |-> "int", val |-> n]
GoMap(m)     == [type |-> "map[string]interface{}", val |-> m]

\* a map[string]interface{}: nil, or made with the entries kv
NilMap       == [isNil |-> TRUE, kv |-> <<>>]
MakeMap(kv)  == [isNil |-> FALSE, kv |-> kv]

\* m[k]: the zero value (a nil interface) when k is absent or m is nil
Index(m, k)  == IF k \in DOMAIN m.kv THEN m.kv[k] ELSE GoNil

\* v.(string) in its comma-ok form
AssertString(v) ==
    IF v.type = "string" THEN [val |-> v.val, ok |-> TRUE]
    ELSE [val |-> <<>>, ok |-> FALSE]

\* "UPDATE", "users", "row1"
StrUPDATE == <<85, 80, 68, 65, 84, 69>>
StrUsers  == <<117, 115, 101, 114, 115>>
StrRow1   == <<114, 111, 119, 49>>

NilSlice      == [isNil |-> TRUE, elems |-> <<>>]
MakeSlice(xs) == [isNil |-> FALSE, elems |-> xs]
ZeroTime      == [isZero |-> TRUE, t |-> 0]
TimeAt(t)     == [isZero |-> FALSE, t |-> t]

\* LogData{}
ZeroLogData ==
    [Operation |-> <<>>, Table |-> <<>>, RowIdentifier |-> <<>>, Columns |-> NilSlice,
     Timestamp |-> ZeroTime, Before |-> NilMap, After |-> NilMap]

Fields == {"bio", "email"}

-----------------------------------------------------------------------------
(* The signal generators *)

FieldLevenshteinGenerator(f) == [kind |-> "FieldLevenshteinGenerator", FieldName |-> f]
EntropyChangeGenerator(f)    == [kind |-> "EntropyChangeGenerator", FieldName |-> f]

Generators == {FieldLevenshteinGenerator(f) : f \in Fields}
                  \cup {EntropyChangeGenerator(f) : f \in Fields}

FieldLevenshteinGenerator_GenerateSignal(flg, logData) ==
    LET before == AssertString(Index(logData.Before, flg.FieldName))
        after  == AssertString(Index(logData.After, flg.FieldName))
    IN  IF before.ok /\ after.ok
        THEN RInt(levenshteinDistance(before.val, after.val))
        ELSE RZero

EntropyChangeGenerator_GenerateSignal(ecg, logData) ==
    LET before == AssertString(Index(logData.Before, ecg.FieldName))
        after  == AssertString(Index(logData.After, ecg.FieldName))
    IN  IF before.ok /\ after.ok
        THEN RSub(calculateEntropy(after.val), calculateEntropy(before.val))
        ELSE RZero

\* gen.GenerateSignal(logData) through the SignalGenerator interface
GenerateSignal(gen, logData) ==
    IF gen.kind = "FieldLevenshteinGenerator"
    THEN FieldLevenshteinGenerator_GenerateSignal(gen, logData)
    ELSE EntropyChangeGenerator_GenerateSignal(gen, logData)

-----------------------------------------------------------------------------
(* SignalProcessor and the display names *)

\* the name AddGenerator derives from the generator's concrete type
GeneratorName(gen) ==
    CASE gen.kind = "FieldLevenshteinGenerator" -> <<"Levenshtein(", gen.FieldName, ")">>
      [] gen.kind = "EntropyChangeGenerator"    -> <<"Entropy(", gen.FieldName, ")">>
      [] OTHER                                  -> <<"Unknown Generator">>

\* a registry that puts the newest generator first
AppendGenerator_Prepends(generators, gen) == <<gen>> \o generators

\* sp.generators = append(sp.generators, gen)
AppendGenerator(generators, gen) == Append(generators, gen)

\* signalGeneratorNames = append(signalGeneratorNames, name)
RegisterSignalGenerator(names, name) == Append(names, name)

\* a vector that leaves out the generators whose field the record lacks
GenerateSignalVector_OmitsAbsentFields(sp, logData) ==
    LET present(gen) == /\ gen.FieldName \in DOMAIN logData.Before.kv
                        /\ gen.FieldName \in DOMAIN logData.After.kv
        kept == SelectSeq(sp.generators, present)
    IN  [i \in 1..Len(kept) |-> GenerateSignal(kept[i], logData)]

SignalProcessor_GenerateSignalVector(sp, logData) ==
    [i \in 1..Len(sp.generators) |-> GenerateSignal(sp.generators[i], logData)]

\* the name LogAnomalyInput prints for position i (0-based) of a vector
LabelAt(names, i) == IF i < Len(names) THEN names[i + 1] ELSE <<"unknown">>

\* vectorStrs of LogAnomalyInput: one name=value entry per position
VectorStrs(names, input) ==
    [k \in 1..Len(input.SignalVector) |->
        [name |-> LabelAt(names, k - 1), val |-> input.SignalVector[k]]]

\* the AnomalyInput main builds from a LogData and its vector
AnomalyInputOf(logData, vector) ==
    [Operation |-> logData.Operation, Table |-> logData.Table,
     Timestamp |-> logData.Timestamp, SignalVector |-> vector]

NoCall == [op |-> "none", proc |-> 0, logData |-> ZeroLogData, vector |-> <<>>, strs |-> <<>>]

\* The LogData the processors are run on: the maps nil, empty, lacking a field,
\* and holding strings for both fields
MapA == MakeMap([f \in Fields |-> IF f = "bio" THEN GoString(<<>>) ELSE GoString(<<97, 98, 98>>)])
MapB == MakeMap([f \in Fields |-> IF f = "bio" THEN GoString(<<97, 98>>) ELSE GoString(<<>>)])
MapC == MakeMap([f \in {"email"} |-> GoString(<<97>>)])

PipeLogData ==
    { [ZeroLogData EXCEPT !.Operation = StrUPDATE, !.Table = StrUsers,
                          !.RowIdentifier = StrRow1, !.Timestamp = TimeAt(1),
                          !.Before = ba[1], !.After = ba[2]] :
        ba \in { <<NilMap, NilMap>>, <<MakeMap(<<>>), MakeMap(<<>>)>>, <<MapA, MapB>>,
                 <<MapB, MapA>>, <<MapC, MapB>>, <<MapA, NilMap>> } }

ProcInit ==
    /\ processors = <<>>
    /\ signalGeneratorNames = <<>>
    /\ added = <<>>
    /\ last = NoCall

\* processor := logprocessor.SignalProcessor{}: main creates one per selected field
NewProcessor ==
    /\ Len(processors) < Cardinality(Fields)
    /\ processors' = Append(processors, [generators |-> <<>>])
    /\ added' = Append(added, <<>>)
    /\ last' = [NoCall EXCEPT !.op = "NewProcessor", !.proc = Len(processors) + 1]
    /\ UNCHANGED signalGeneratorNames
    /\ UNCHANGED <<parseVars, levVars, genVars, entVars, cryptVars, callVars, mainVars, wizVars>>

AddGenerator(p, gen) ==
    /\ Len(signalGeneratorNames) < MaxAdds
    /\ processors' = [processors EXCEPT ![p].generators = AppendGenerator(@, gen)]
    /\ signalGeneratorNames' = RegisterSignalGenerator(signalGeneratorNames, GeneratorName(gen))
    /\ added' = [added EXCEPT ![p] = Append(@, gen)]
    /\ last' = [NoCall EXCEPT !.op = "AddGenerator", !.proc = p]
    /\ UNCHANGED <<parseVars, levVars, genVars, entVars, cryptVars, callVars, mainVars, wizVars>>

GenerateSignalVector(p, logData) ==
    /\ last' = [NoCall EXCEPT !.op = "GenerateSignalVector", !.proc = p, !.logData = logData,
                              !.vector = SignalProcessor_GenerateSignalVector(processors[p], logData)]
    /\ UNCHANGED <<processors, signalGeneratorNames, added>>
    /\ UNCHANGED <<parseVars, levVars, genVars, entVars, cryptVars, callVars, mainVars, wizVars>>

\* main hands the vector just generated to LogAnomalyInput; it skips a
\* processor that has no generators
LogAnomalyInput ==
    /\ last.op = "GenerateSignalVector"
    /\ Len(processors[last.proc].generators) # 0
    /\ last' = [last EXCEPT !.op = "LogAnomalyInput",
                            !.strs = VectorStrs(signalGeneratorNames,
                                                AnomalyInputOf(last.logData, last.vector))]
    /\ UNCHANGED <<processors, signalGeneratorNames, added>>
    /\ UNCHANGED <<parseVars, levVars, genVars, entVars, cryptVars, callVars, mainVars, wizVars>>

-----------------------------------------------------------------------------
(* dbparsers/dbparsers.go *)

GoStringSlice(xs) == [type |-> "[]string", val |-> MakeSlice(xs)]
GoTime(t)         == [type |-> "time.Time", val |-> TimeAt(t)]

\* the comma-ok assertions of ParseLog; the value is the type's zero value when not ok
AssertStringSlice(v) == IF v.type = "[]string" THEN v.val ELSE NilSlice
AssertTime(v)        == IF v.type = "time.Time" THEN v.val ELSE ZeroTime

\* an assertion that lets any kind of map through
AssertMap_AnyMap(v) ==
    IF v.type \in {"map[string]interface{}", "map[string]string"} THEN v.val ELSE NilMap

AssertMap(v)         == IF v.type = "map[string]interface{}" THEN v.val ELSE NilMap

CanonFields ==
    {"Operation", "Table", "RowIdentifier", "Columns", "Timestamp", "Before", "After"}

OracleKeys ==
    [Operation |-> "action", Table |-> "table_name", RowIdentifier |-> "rowid",
     Columns |-> "changed_columns", Timestamp |-> "timestamp",
     Before |-> "before_values", After |-> "after_values"]

\* a Postgres parser that reads the row identifier from the Oracle key
PostgresKeys_OracleRowid ==
    [Operation |-> "operation", Table |-> "table", RowIdentifier |-> "rowid",
     Columns |-> "changed_columns", Timestamp |-> "timestamp",
     Before |-> "old_values", After |-> "new_values"]

PostgresKeys ==
    [Operation |-> "operation", Table |-> "table", RowIdentifier |-> "primary_key",
     Columns |-> "changed_columns", Timestamp |-> "timestamp",
     Before |-> "old_values", After |-> "new_values"]

NoError == "nil"

\* the field assignments shared by both parsers, for the keys the parser reads
ParseFields(logMap, keys) ==
    [Operation     |-> AssertString(Index(logMap, keys.Operation)).val,
     Table         |-> AssertString(Index(logMap, keys.Table)).val,
     RowIdentifier |-> AssertString(Index(logMap, keys.RowIdentifier)).val,
     Columns       |-> AssertStringSlice(Index(logMap, keys.Columns)),
     Timestamp     |-> AssertTime(Index(logMap, keys.Timestamp)),
     Before        |-> AssertMap(Index(logMap, keys.Before)),
     After         |-> AssertMap(Index(logMap, keys.After))]

\* rawLog.(map[string]interface{})
IsLogMap(raw) == raw.type = "map[string]interface{}"

\* a parser that refuses the record without reporting an error
OracleLogParser_ParseLog_NilError(raw) ==
    IF ~IsLogMap(raw)
    THEN [logData |-> ZeroLogData, err |-> NoError]
    ELSE [logData |-> ParseFields(raw.val, OracleKeys), err |-> NoError]

OracleLogParser_ParseLog(raw) ==
    IF ~IsLogMap(raw)
    THEN [logData |-> ZeroLogData, err |-> "invalid log format"]
    ELSE [logData |-> ParseFields(raw.val, OracleKeys), err |-> NoError]

PostgresLogParser_ParseLog(raw) ==
    IF ~IsLogMap(raw)
    THEN [logData |-> ZeroLogData, err |-> "invalid log format"]
    ELSE [logData |-> ParseFields(raw.val, PostgresKeys), err |-> NoError]

\* A well-typed value for each canonical field, and a value of another type
GoodValue(f) ==
    CASE f = "Operation"     -> GoString(StrUPDATE)
      [] f = "Table"         -> GoString(StrUsers)
      [] f = "RowIdentifier" -> GoString(StrRow1)
      [] f = "Columns"       -> GoStringSlice(<<"bio", "email">>)
      [] f = "Timestamp"     -> GoTime(1)
      [] f = "Before"        -> GoMap(MakeMap([c \in {"bio"} |-> GoString(<<97>>)]))
      [] f = "After"         -> GoMap(MakeMap([c \in {"bio"} |-> GoString(<<97, 98, 98>>)]))

WrongValue(f) ==
    CASE f \in {"Operation", "Table", "RowIdentifier"} -> GoInt(42)
      [] f = "Columns"   -> [type |-> "[]interface{}", val |-> MakeSlice(<<"bio", "email">>)]
      [] f = "Timestamp" -> GoString(<<49>>)
      [] f \in {"Before", "After"} -> [type |-> "map[string]string", val |-> MakeMap(<<>>)]

\* the value LogData carries for a field whose key holds GoodValue(f)
GoodField(f) == GoodValue(f).val

\* logsimulator: the keys GenerateOracleUpdateLog and GeneratePostgresUpdateLog write
GenerateOracleUpdateLogKeys ==
    [Operation |-> "action", Table |-> "table_name", RowIdentifier |-> "rowid",
     Columns |-> "changed_columns", Timestamp |-> "timestamp",
     Before |-> "before_values", After |-> "after_values"]

GeneratePostgresUpdateLogKeys ==
    [Operation |-> "operation", Table |-> "table", RowIdentifier |-> "primary_key",
     Columns |-> "changed_columns", Timestamp |-> "timestamp",
     Before |-> "old_values", After |-> "new_values"]

KeysOf(dialect) ==
    IF dialect = "oracle" THEN GenerateOracleUpdateLogKeys ELSE GeneratePostgresUpdateLogKeys

\* the raw record of one dialect in which every canonical field is good, absent or mistyped
ShapedRecord(dialect, choice) ==
    LET keys    == KeysOf(dialect)
        present == {f \in CanonFields : choice[f] # "absent"}
        fieldOf(k) == CHOOSE f \in present : keys[f] = k
    IN  GoMap(MakeMap([k \in {keys[f] : f \in present} |->
                          IF choice[fieldOf(k)] = "good" THEN GoodValue(fieldOf(k))
                          ELSE WrongValue(fieldOf(k))]))

Choices == [CanonFields -> {"good", "absent", "wrong"}]

\* raw records that are not a map[string]interface{}
NonMaps ==
    { GoNil, GoString(StrUPDATE), GoInt(42),
      [type |-> "map[string]string", val |-> MakeMap(<<>>)] }

RawLogs ==
    NonMaps \cup {GoMap(NilMap)}
            \cup {ShapedRecord(d, c) : d \in {"oracle", "postgres"}, c \in Choices}

NoParse == [called |-> FALSE, logData |-> ZeroLogData, err |-> NoError]

ParseInit ==
    /\ parser \in {"oracle", "postgres"}
    /\ rawLog \in RawLogs
    /\ parsed = NoParse

ParseIdle ==
    /\ parser = "oracle"
    /\ rawLog = GoNil
    /\ parsed = NoParse

OracleParseLog ==
    /\ parser = "oracle"
    /\ ~parsed.called
    /\ parsed' = [called |-> TRUE] @@ OracleLogParser_ParseLog(rawLog)
    /\ UNCHANGED <<parser, rawLog>>
    /\ UNCHANGED <<procVars, levVars, genVars, entVars, cryptVars, callVars, mainVars, wizVars>>

PostgresParseLog ==
    /\ parser = "postgres"
    /\ ~parsed.called
    /\ parsed' = [called |-> TRUE] @@ PostgresLogParser_ParseLog(rawLog)
    /\ UNCHANGED <<parser, rawLog>>
    /\ UNCHANGED <<procVars, levVars, genVars, entVars, cryptVars, callVars, mainVars, wizVars>>

-----------------------------------------------------------------------------
(* One levenshteinDistance call on s1 and a string s2 obtained from s1 by    *)
(* single-rune edits                                                         *)

NoDist == [called |-> FALSE, val |-> 0]

Insertions(s)    == {SubSeq(s, 1, i) \o <<r>> \o SubSeq(s, i + 1, Len(s)) : i \in 0..Len(s), r \in Runes}
Deletions(s)     == {SubSeq(s, 1, i - 1) \o SubSeq(s, i + 1, Len(s)) : i \in 1..Len(s)}
Substitutions(s) == {[s EXCEPT ![i] = r] : i \in 1..Len(s), r \in Runes} \ {s}
OneEdit(s)       == Insertions(s) \cup Deletions(s) \cup Substitutions(s)

LevInit ==
    /\ s1 \in StringsUpTo(MaxLen)
    /\ s2 = s1
    /\ edits = 0
    /\ dist = NoDist

LevIdle ==
    /\ s1 = <<>>
    /\ s2 = <<>>
    /\ edits = 0
    /\ dist = NoDist

EditTo(t) ==
    /\ edits < MaxEdits
    /\ s2' = t
    /\ edits' = edits + 1
    /\ dist' = NoDist
    /\ UNCHANGED s1
    /\ UNCHANGED <<procVars, parseVars, genVars, entVars, cryptVars, callVars, mainVars, wizVars>>

InsertRune     == \E t \in Insertions(s2) : Len(t) <= MaxLen /\ EditTo(t)
DeleteRune     == \E t \in Deletions(s2) : EditTo(t)
SubstituteRune == \E t \in Substitutions(s2) : EditTo(t)

CallLevenshtein ==
    /\ ~dist.called
    /\ dist' = [called |-> TRUE, val |-> levenshteinDistance(s1, s2)]
    /\ UNCHANGED <<s1, s2, edits>>
    /\ UNCHANGED <<procVars, parseVars, genVars, entVars, cryptVars, callVars, mainVars, wizVars>>

-----------------------------------------------------------------------------
(* One GenerateSignal call of a generator on a LogData *)

GenValues == {GoString(<<97>>), GoString(<<97, 98, 98>>), GoString(<<233, 98>>), GoInt(42), GoNil}

GenMaps ==
    {NilMap} \cup {MakeMap(kv) : kv \in UNION {[S -> GenValues] : S \in SUBSET Fields}}

GenLogData ==
    { [ZeroLogData EXCEPT !.Operation = StrUPDATE, !.Table = StrUsers,
                          !.Before = b, !.After = a] : b \in GenMaps, a \in GenMaps }

NoSignal == [called |-> FALSE, val |-> RZero]

GenInit ==
    /\ genKind \in {"FieldLevenshteinGenerator", "EntropyChangeGenerator"}
    /\ genField \in Fields
    /\ genLogData \in GenLogData
    /\ genSignal = NoSignal

GenIdle ==
    /\ genKind = "FieldLevenshteinGenerator"
    /\ genField = "bio"
    /\ genLogData = ZeroLogData
    /\ genSignal = NoSignal

CallLevenshteinGenerator ==
    /\ genKind = "FieldLevenshteinGenerator"
    /\ ~genSignal.called
    /\ genSignal' = [called |-> TRUE,
                     val |-> FieldLevenshteinGenerator_GenerateSignal(
                                 FieldLevenshteinGenerator(genField), genLogData)]
    /\ UNCHANGED <<genKind, genField, genLogData>>
    /\ UNCHANGED <<procVars, parseVars, levVars, entVars, cryptVars, callVars, mainVars, wizVars>>

CallEntropyGenerator ==
    /\ genKind = "EntropyChangeGenerator"
    /\ ~genSignal.called
    /\ genSignal' = [called |-> TRUE,
                     val |-> EntropyChangeGenerator_GenerateSignal(
                                 EntropyChangeGenerator(genField), genLogData)]
    /\ UNCHANGED <<genKind, genField, genLogData>>
    /\ UNCHANGED <<procVars, parseVars, levVars, entVars, cryptVars, callVars, mainVars, wizVars>>

-----------------------------------------------------------------------------
(* calculateEntropy in float64, the buckets in the order the map yields them *)

\* A float64 of magnitude below 4 that is a multiple of 2^-55: the magnitude is
\* (hi * 2^26 + lo) * 2^-55.  Every value of the runs below is of this kind.
F64Limb == 2^26
F64Zero == [neg |-> FALSE, hi |-> 0, lo |-> 0]

\* the bits below the 53 a float64 keeps, by the binade of the magnitude
F64Dropped(hi) ==
    IF hi < 2^27 THEN 0 ELSE IF hi < 2^28 THEN 1 ELSE IF hi < 2^29 THEN 2
    ELSE IF hi < 2^30 THEN 3 ELSE 4

\* round to nearest, ties to even
F64Round(neg, hi, lo) ==
    LET unit == 2^F64Dropped(hi)
        rest == lo % unit
        kept == lo - rest
        up   == 2 * rest > unit \/ (2 * rest = unit /\ (kept \div unit) % 2 = 1)
        low  == IF up THEN kept + unit ELSE kept
    IN  [neg |-> neg /\ (hi # 0 \/ low # 0), hi |-> hi + (low \div F64Limb), lo |-> low % F64Limb]

\* x + y for x, y >= 0
F64Add(x, y) ==
    LET lo == x.lo + y.lo
    IN  F64Round(FALSE, x.hi + y.hi + (lo \div F64Limb), lo % F64Limb)

\* x - y for x, y >= 0
F64Sub(x, y) ==
    LET less   == x.hi < y.hi \/ (x.hi = y.hi /\ x.lo < y.lo)
        big    == IF less THEN y ELSE x
        small  == IF less THEN x ELSE y
        borrow == IF big.lo < small.lo THEN 1 ELSE 0
    IN  F64Round(less, big.hi - small.hi - borrow, big.lo + borrow * F64Limb - small.lo)

\* -(p * math.Log2(p)) for p = count / length, both operations rounded:
\* <<count, length>> :> <<hi, lo>>
PLog2P ==
    <<1, 1>> :> <<0, 0>> @@
    <<1, 2>> :> <<268435456, 0>> @@ <<2, 2>> :> <<0, 0>> @@
    <<1, 3>> :> <<283640087, 50286188>> @@ <<2, 3>> :> <<209366234, 11093892>> @@
    <<3, 3>> :> <<0, 0>> @@
    <<1, 4>> :> <<268435456, 0>> @@ <<2, 4>> :> <<268435456, 0>> @@
    <<3, 4>> :> <<167116170, 37851020>> @@ <<4, 4>> :> <<0, 0>> @@
    <<1, 5>> :> <<249315130, 52352976>> @@ <<2, 5>> :> <<283881896, 51018860>> @@
    <<3, 5>> :> <<237393234, 26278476>> @@ <<4, 5>> :> <<138267063, 61772406>> @@
    <<5, 5>> :> <<0, 0>> @@
    <<1, 6>> :> <<231298529, 13958282>> @@ <<2, 6>> :> <<283640087, 50286188>> @@
    <<3, 6>> :> <<268435456, 0>> @@ <<4, 6>> :> <<209366234, 11093892>> @@
    <<5, 6>> :> <<117679601, 8241360>> @@ <<6, 6>> :> <<0, 0>>

\* the runes of s in the order of their first occurrence: the order in which
\* freq[r]++ fills the slots of the map's bucket
RECURSIVE Buckets(_)
Buckets(s) ==
    IF s = <<>> THEN <<>>
    ELSE LET front == Buckets(SubSeq(s, 1, Len(s) - 1))
             r     == s[Len(s)]
         IN  IF \E k \in 1..Len(front) : front[k] = r THEN front ELSE Append(front, r)

\* for _, count := range freq: the runtime starts at one of the bucket's eight
\* slots, chosen at random, and wraps around
RangeOrder(buckets, slot) ==
    LET first == IF slot < Len(buckets) THEN slot ELSE 0
    IN  SubSeq(buckets, first + 1, Len(buckets)) \o SubSeq(buckets, 1, first)

\* entropy -= p * math.Log2(p), bucket after bucket
RECURSIVE EntropySum64(_, _, _)
EntropySum64(s, order, entropy) ==
    IF order = <<>> THEN entropy
    ELSE LET count == Freq(s)[Head(order)]
             term  == PLog2P[<<count, GoLen(s)>>]
         IN  EntropySum64(s, Tail(order),
                          F64Add(entropy, [neg |-> FALSE, hi |-> term[1], lo |-> term[2]]))

\* calculateEntropy(s) when the range over freq starts at the given slot
calculateEntropy64(s, slot) ==
    IF s = <<>> THEN F64Zero ELSE EntropySum64(s, RangeOrder(Buckets(s), slot), F64Zero)

\* EntropyChangeGenerator.GenerateSignal, the two ranges starting at the given slots
EntropyChangeGenerator_GenerateSignal64(ecg, logData, slotBefore, slotAfter) ==
    LET before == AssertString(Index(logData.Before, ecg.FieldName))
        after  == AssertString(Index(logData.After, ecg.FieldName))
    IN  IF before.ok /\ after.ok
        THEN F64Sub(calculateEntropy64(after.val, slotAfter),
                    calculateEntropy64(before.val, slotBefore))
        ELSE F64Zero

\* "", "ab", "aab", "abc", "abbccc", "aabbcd", and a value that is no string
Gen64Values ==
    { GoString(<<>>), GoString(<<97, 98>>), GoString(<<97, 97, 98>>), GoString(<<97, 98, 99>>),
      GoString(<<97, 98, 98, 99, 99, 99>>), GoString(<<97, 97, 98, 98, 99, 100>>), GoInt(42) }

Gen64Init ==
    /\ genKind = "EntropyChangeGenerator"
    /\ genField \in Fields
    /\ genLogData \in { [ZeroLogData EXCEPT !.Operation = StrUPDATE, !.Table = StrUsers,
                                            !.Before = MakeMap([f \in {"bio"} |-> b]),
                                            !.After = MakeMap([f \in {"bio"} |-> a])] :
                          b \in Gen64Values, a \in Gen64Values }
    /\ genSignal = [called |-> FALSE, val |-> <<>>]

\* vector := processor.GenerateSignalVector(genLogData) on a processor whose
\* registry is one EntropyChangeGenerator for genField; the call can be repeated
GenerateSignalVector64 ==
    /\ \E slotBefore, slotAfter \in 0..7 :
          LET sp == [generators |-> <<EntropyChangeGenerator(genField)>>]
          IN  genSignal' =
                 [called |-> TRUE,
                  val |-> [i \in 1..Len(sp.generators) |->
                              EntropyChangeGenerator_GenerateSignal64(
                                  sp.generators[i], genLogData, slotBefore, slotAfter)]]
    /\ UNCHANGED <<genKind, genField, genLogData>>
    /\ UNCHANGED <<procVars, parseVars, levVars, entVars, cryptVars, callVars, mainVars, wizVars>>

-----------------------------------------------------------------------------
(* One calculateEntropy call *)

\* 'a'..'d' and U+00E9
EntRunes == {97, 98, 99, 100, 233}

RECURSIVE EntStringsUpTo(_)
EntStringsUpTo(n) ==
    IF n = 0 THEN {<<>>}
    ELSE LET shorter == EntStringsUpTo(n - 1)
         IN  shorter \cup {Append(s, r) : s \in {t \in shorter : Len(t) = n - 1}, r \in EntRunes}

NoEntropy == [called |-> FALSE, val |-> RZero]

EntInit ==
    /\ entIn \in EntStringsUpTo(MaxEntLen)
    /\ entOut = NoEntropy

EntIdle ==
    /\ entIn = <<>>
    /\ entOut = NoEntropy

CallCalculateEntropy ==
    /\ ~entOut.called
    /\ entOut' = [called |-> TRUE, val |-> calculateEntropy(entIn)]
    /\ UNCHANGED entIn
    /\ UNCHANGED <<procVars, parseVars, levVars, genVars, cryptVars, callVars, mainVars, wizVars>>

-----------------------------------------------------------------------------
(* logsimulator/encryption.go *)

EncryptionTypeNone     == "None"
EncryptionTypeAES      == "AES"
EncryptionTypeChaCha20 == "ChaCha20"

\* aes.BlockSize, the nonce size of cipher.NewGCM and of chacha20poly1305, the
\* size of the authentication tag Seal appends, chacha20poly1305.KeySize
BlockSize     == 16
NonceSize     == 12
TagSize       == 16
ChaChaKeySize == 32

\* Bytes that come from crypto/rand or from a cipher are known by their origin
\* and their number only.  rand is the state of crypto_rand.Reader: reads
\* counts the reads made so far, and the read numbered failAt fails (0: none).
NoBytes == [read |-> 0, len |-> 0]

\* io.ReadFull(crypto_rand.Reader, buf) with len(buf) = n
ReadFull(rand, n) ==
    LET k == rand.reads + 1
    IN  IF k = rand.failAt
        THEN [bytes |-> NoBytes, err |-> "unexpected EOF", rand |-> [rand EXCEPT !.reads = k]]
        ELSE [bytes |-> [read |-> k, len |-> n], err |-> NoError,
              rand |-> [rand EXCEPT !.reads = k]]

\* An Encryptor interface value: nil, or a pointer (possibly nil) of a concrete type
NilEncryptor  == [type |-> "nil", isNilPtr |-> TRUE, key |-> NoBytes]
NilPtr(t)     == [type |-> t, isNilPtr |-> TRUE, key |-> NoBytes]
PtrTo(t, key) == [type |-> t, isNilPtr |-> FALSE, key |-> key]

\* the body shared by NewAESCBCEncryptor, NewAESCTREncryptor, NewAESGCMEncryptor
\* and NewChaCha20Encryptor: a key of keySize random bytes, or nil and the error
NewEncryptor(t, keySize, rand) ==
    LET key == ReadFull(rand, keySize)
    IN  IF key.err # NoError
        THEN [enc |-> NilPtr(t), err |-> key.err, rand |-> key.rand]
        ELSE [enc |-> PtrTo(t, key.bytes), err |-> NoError, rand |-> key.rand]

NewAESCBCEncryptor(keySize, rand) == NewEncryptor("*AESCBCEncryptor", keySize, rand)
NewAESCTREncryptor(keySize, rand) == NewEncryptor("*AESCTREncryptor", keySize, rand)
NewAESGCMEncryptor(keySize, rand) == NewEncryptor("*AESGCMEncryptor", keySize, rand)
NewChaCha20Encryptor(rand)        == NewEncryptor("*ChaCha20Encryptor", ChaChaKeySize, rand)

\* a default of AES-128
DefaultKeySize_Sixteen(config) ==
    IF config.KeySize = 0 THEN [config EXCEPT !.KeySize = 16] ELSE config

\* if config.KeySize == 0 { config.KeySize = 32 }, on GetEncryptor's own copy
DefaultKeySize(config) ==
    IF config.KeySize = 0 THEN [config EXCEPT !.KeySize = 32] ELSE config

\* a validation that lets every key size through
InvalidKeySize_Never(keySize) == FALSE

\* config.KeySize != 16 && config.KeySize != 24 && config.KeySize != 32
InvalidKeySize(keySize) == keySize # 16 /\ keySize # 24 /\ keySize # 32

\* switch config.AESMode, on a config whose key size is valid
NewAESEncryptor(c, rand) ==
    CASE c.AESMode \in {"CBC", ""} -> NewAESCBCEncryptor(c.KeySize, rand)
      [] c.AESMode = "CTR"         -> NewAESCTREncryptor(c.KeySize, rand)
      [] c.AESMode = "GCM"         -> NewAESGCMEncryptor(c.KeySize, rand)
      [] OTHER -> [enc |-> NilEncryptor, err |-> "unsupported AES mode: %s", rand |-> rand]

\* GetEncryptor(config): the Encryptor, the error, and the function's copy of config
GetEncryptor(config, rand) ==
    LET c == IF config.Type = EncryptionTypeAES THEN DefaultKeySize(config) ELSE config
    IN  [config |-> c] @@
        (CASE c.Type = EncryptionTypeNone ->
                 [enc |-> PtrTo("*NoneEncryptor", NoBytes), err |-> NoError, rand |-> rand]
           [] c.Type = EncryptionTypeAES ->
                 IF InvalidKeySize(c.KeySize)
                 THEN [enc |-> NilEncryptor, rand |-> rand,
                       err |-> "invalid AES key size: must be 16, 24, or 32 bytes"]
                 ELSE NewAESEncryptor(c, rand)
           [] c.Type = EncryptionTypeChaCha20 -> NewChaCha20Encryptor(rand)
           [] OTHER ->
                 [enc |-> NilEncryptor, rand |-> rand,
                  err |-> "unsupported encryption type: %s"])

\* func GetEncryptor(config EncryptionConfig): the struct is passed by value, so
\* the caller's variable keeps its value whatever the function assigns
ByValue(argument, local) == argument

\* a padding that adds nothing to data that already fills its blocks
padPKCS7_NoFullBlock(data, blockSize) ==
    LET padding == (blockSize - (Len(data) % blockSize)) % blockSize
    IN  data \o [i \in 1..padding |-> padding % 256]

\* padPKCS7(data, blockSize) on the bytes of data
padPKCS7(data, blockSize) ==
    LET padding == blockSize - (Len(data) % blockSize)
    IN  data \o [i \in 1..padding |-> padding % 256]

\* a character of the base64 alphabet (A-Z a-z 0-9 + /); which one depends on
\* the key and the IV
Base64Char == -1

\* base64.StdEncoding.EncodeToString of n bytes: 4 characters for every 3 bytes,
\* the last group filled with '='
EncodeToString(n) ==
    LET groups == (n + 2) \div 3
        pad    == (3 - (n % 3)) % 3
    IN  [i \in 1..(4 * groups) |-> IF i > 4 * groups - pad THEN 61 ELSE Base64Char]

\* %d of a non-negative int
RECURSIVE Itoa(_)
Itoa(n) == IF n < 10 THEN <<48 + n>> ELSE Itoa(n \div 10) \o <<48 + (n % 10)>>

\* "AES-", "-CBC:", "-CTR:", "-GCM:", "ChaCha20:"
StrAES      == <<65, 69, 83, 45>>
StrCBC      == <<45, 67, 66, 67, 58>>
StrCTR      == <<45, 67, 84, 82, 58>>
StrGCM      == <<45, 71, 67, 77, 58>>
StrChaCha20 == <<67, 104, 97, 67, 104, 97, 50, 48, 58>>

\* aes.NewCipher(key) fails on a key that is not 16, 24 or 32 bytes long
NewCipher(key) == IF key.len \in {16, 24, 32} THEN NoError ELSE "crypto/aes: invalid key size"

\* what an Encrypt that failed returns
EncryptFailed(err, rand) ==
    [val |-> <<>>, err |-> err, rand |-> rand, key |-> NoBytes, iv |-> NoBytes]

\* the Encrypt methods: nonceLen random bytes, then the tagged base64 text of
\* the nonce followed by cipherLen bytes of ciphertext
Seal(e, tag, nonceLen, cipherLen, rand) ==
    LET nonce == ReadFull(rand, nonceLen)
    IN  IF nonce.err # NoError THEN EncryptFailed(nonce.err, nonce.rand)
        ELSE [val |-> tag \o EncodeToString(nonce.bytes.len + cipherLen), err |-> NoError,
              rand |-> nonce.rand, key |-> e.key, iv |-> nonce.bytes]

NoneEncryptor_Encrypt_Empty(e, plaintext, rand) == EncryptFailed(NoError, rand)

NoneEncryptor_Encrypt(e, plaintext, rand) ==
    [val |-> plaintext, err |-> NoError, rand |-> rand, key |-> NoBytes, iv |-> NoBytes]

AESCBCEncryptor_Encrypt(e, plaintext, rand) ==
    IF NewCipher(e.key) # NoError THEN EncryptFailed(NewCipher(e.key), rand)
    ELSE Seal(e, StrAES \o Itoa(e.key.len * 8) \o StrCBC, BlockSize,
              Len(padPKCS7(UTF8(plaintext), BlockSize)), rand)

\* a CTR strategy that tags its output as CBC
AESCTREncryptor_Encrypt_TaggedCBC(e, plaintext, rand) ==
    Seal(e, StrAES \o Itoa(e.key.len * 8) \o StrCBC, BlockSize, GoLen(plaintext), rand)

AESCTREncryptor_Encrypt(e, plaintext, rand) ==
    IF NewCipher(e.key) # NoError THEN EncryptFailed(NewCipher(e.key), rand)
    ELSE Seal(e, StrAES \o Itoa(e.key.len * 8) \o StrCTR, BlockSize, GoLen(plaintext), rand)

AESGCMEncryptor_Encrypt(e, plaintext, rand) ==
    IF NewCipher(e.key) # NoError THEN EncryptFailed(NewCipher(e.key), rand)
    ELSE Seal(e, StrAES \o Itoa(e.key.len * 8) \o StrGCM, NonceSize,
              GoLen(plaintext) + TagSize, rand)

ChaCha20Encryptor_Encrypt(e, plaintext, rand) ==
    Seal(e, StrChaCha20, NonceSize, GoLen(plaintext) + TagSize, rand)

\* enc.Encrypt(plaintext) through the Encryptor interface
Encrypt(enc, plaintext, rand) ==
    CASE enc.type = "*NoneEncryptor"     -> NoneEncryptor_Encrypt(enc, plaintext, rand)
      [] enc.type = "*AESCBCEncryptor"   -> AESCBCEncryptor_Encrypt(enc, plaintext, rand)
      [] enc.type = "*AESCTREncryptor"   -> AESCTREncryptor_Encrypt(enc, plaintext, rand)
      [] enc.type = "*AESGCMEncryptor"   -> AESGCMEncryptor_Encrypt(enc, plaintext, rand)
      [] enc.type = "*ChaCha20Encryptor" -> ChaCha20Encryptor_Encrypt(enc, plaintext, rand)

\* a test that disables encryption only below zero percent
EncryptionDisabled_BelowZero(config) ==
    config.Type = EncryptionTypeNone \/ config.Percentage < 0

\* config.Type == EncryptionTypeNone || config.Percentage <= 0
EncryptionDisabled(config) ==
    config.Type = EncryptionTypeNone \/ config.Percentage <= 0

\* config.Percentage < 100 && ...: rand.Intn is called only when the left side holds
DrawsNumber(config) == config.Percentage < 100

\* a skip that keeps the draw equal to the percentage
SkipsValue_Greater(config, r) == r > config.Percentage

\* rand.Intn(100) >= config.Percentage, for the number r drawn
SkipsValue(config, r) == r >= config.Percentage

\* what MaybeEncrypt returns and what it did on the way: the numbers drawn from
\* math/rand, whether GetEncryptor was called, the key and IV of the Encrypt call
MaybeEncrypt(value, config, r, rand) ==
    LET unchanged == [val |-> value, err |-> NoError, draws |-> <<>>, constructed |-> FALSE,
                      rand |-> rand, key |-> NoBytes, iv |-> NoBytes]
        draws     == IF DrawsNumber(config) THEN <<r>> ELSE <<>>
    IN  IF EncryptionDisabled(config) THEN unchanged
        ELSE IF DrawsNumber(config) /\ SkipsValue(config, r)
        THEN [unchanged EXCEPT !.draws = draws]
        ELSE LET got == GetEncryptor(config, rand)
             IN  IF got.err # NoError
                 THEN [unchanged EXCEPT !.err = got.err, !.draws = draws,
                                        !.constructed = TRUE, !.rand = got.rand]
                 ELSE [draws |-> draws, constructed |-> TRUE]
                          @@ Encrypt(got.enc, value, got.rand)

\* The configurations, values and random numbers of the runs
EncryptionTypes == {EncryptionTypeNone, EncryptionTypeAES, EncryptionTypeChaCha20, "DES"}
Percentages     == {-5, 0, 1, 37, 99, 100, 150}
AESModes        == {"", "CBC", "CTR", "GCM", "ECB"}
KeySizes        == {0, 16, 20, 24, 32}

EncryptionConfigs ==
    [Type : EncryptionTypes, Percentage : Percentages, AESMode : AESModes, KeySize : KeySizes]

\* "", "a", "éb"
EncValues == {<<>>, <<97>>, <<233, 98>>}

\* the values of rand.Intn(100)
Intn100 == 0..99

NoEncCall ==
    [op |-> "none", val |-> <<>>, err |-> NoError, draws |-> <<>>, constructed |-> FALSE,
     key |-> NoBytes, iv |-> NoBytes]

CryptInit ==
    /\ encConfig \in EncryptionConfigs
    /\ encValue \in EncValues
    /\ secureRand \in {[reads |-> 0, failAt |-> f] : f \in 0..2}
    /\ encryptor = NilEncryptor
    /\ encOut = NoEncCall

CryptIdle ==
    /\ encConfig = [Type |-> EncryptionTypeNone, Percentage |-> 0, AESMode |-> "", KeySize |-> 0]
    /\ encValue = <<>>
    /\ secureRand = [reads |-> 0, failAt |-> 0]
    /\ encryptor = NilEncryptor
    /\ encOut = NoEncCall

\* transformed, err := MaybeEncrypt(encValue, encConfig)
CallMaybeEncrypt ==
    /\ encOut.op = "none"
    /\ \E r \in Intn100 :
          LET ret == MaybeEncrypt(encValue, encConfig, r, secureRand)
          IN  /\ encOut' = [op |-> "MaybeEncrypt", val |-> ret.val, err |-> ret.err,
                            draws |-> ret.draws, constructed |-> ret.constructed,
                            key |-> ret.key, iv |-> ret.iv]
              /\ secureRand' = ret.rand
    /\ UNCHANGED <<encConfig, encValue, encryptor>>
    /\ UNCHANGED <<procVars, parseVars, levVars, genVars, entVars, callVars, mainVars, wizVars>>

\* encryptor, err := GetEncryptor(encConfig)
CallGetEncryptor ==
    /\ encOut.op = "none"
    /\ LET ret == GetEncryptor(encConfig, secureRand)
       IN  /\ encryptor' = ret.enc
           /\ encOut' = [NoEncCall EXCEPT !.op = "GetEncryptor", !.err = ret.err,
                                          !.constructed = TRUE, !.key = ret.enc.key]
           /\ secureRand' = ret.rand
           /\ encConfig' = ByValue(encConfig, ret.config)
    /\ UNCHANGED encValue
    /\ UNCHANGED <<procVars, parseVars, levVars, genVars, entVars, callVars, mainVars, wizVars>>

\* encrypted, err := encryptor.Encrypt(encValue), on the Encryptor GetEncryptor returned
CallEncrypt ==
    /\ encOut.op = "GetEncryptor"
    /\ encOut.err = NoError
    /\ LET ret == Encrypt(encryptor, encValue, secureRand)
       IN  /\ encOut' = [NoEncCall EXCEPT !.op = "Encrypt", !.val = ret.val, !.err = ret.err,
                                          !.constructed = TRUE, !.key = ret.key, !.iv = ret.iv]
           /\ secureRand' = ret.rand
    /\ UNCHANGED <<encConfig, encValue, encryptor>>
    /\ UNCHANGED <<procVars, parseVars, levVars, genVars, entVars, callVars, mainVars, wizVars>>

-----------------------------------------------------------------------------
(* padPKCS7 on plaintexts of every length up to two blocks *)

\* 'a' repeated, alone and after U+00E9 (two bytes)
Plaintexts(n) ==
    {[i \in 1..k |-> 97] : k \in 0..n} \cup {<<233>> \o [i \in 1..k |-> 97] : k \in 0..(n - 1)}

PadInit ==
    /\ encConfig \in [Type : {EncryptionTypeAES}, Percentage : {100}, AESMode : {"", "CBC"},
                      KeySize : {16, 24, 32}]
    /\ encValue \in Plaintexts(MaxPlainLen)
    /\ secureRand = [reads |-> 0, failAt |-> 0]
    /\ encryptor = NilEncryptor
    /\ encOut = NoEncCall

\* paddedPlaintext := padPKCS7([]byte(encValue), aes.BlockSize)
CallPadPKCS7 ==
    /\ encOut.op = "none"
    /\ encOut' = [NoEncCall EXCEPT !.op = "padPKCS7", !.val = padPKCS7(UTF8(encValue), BlockSize)]
    /\ UNCHANGED <<encConfig, encValue, secureRand, encryptor>>
    /\ UNCHANGED <<procVars, parseVars, levVars, genVars, entVars, callVars, mainVars, wizVars>>

-----------------------------------------------------------------------------
(* Encrypt called more than once *)

CallsInit ==
    /\ encConfig \in [Type : {EncryptionTypeAES, EncryptionTypeChaCha20}, Percentage : {100},
                      AESMode : {"CBC", "CTR", "GCM"}, KeySize : {16, 32}]
    /\ encValue \in {<<>>, <<97>>}
    /\ secureRand = [reads |-> 0, failAt |-> 0]
    /\ encryptor = NilEncryptor
    /\ encOut = NoEncCall
    /\ encCalls = <<>>

CallsIdle == encCalls = <<>>

\* the key and the IV/nonce of a call that encrypted
Recorded(calls, ret) ==
    IF ret.err = NoError /\ ret.key # NoBytes
    THEN Append(calls, [key |-> ret.key, iv |-> ret.iv])
    ELSE calls

\* encrypted, err := encryptor.Encrypt(encValue), again and again on the one
\* Encryptor GetEncryptor returned
EncryptOnInstance ==
    /\ encOut.op \in {"GetEncryptor", "Encrypt"}
    /\ encOut.err = NoError
    /\ Len(encCalls) < MaxEncrypts
    /\ LET ret == Encrypt(encryptor, encValue, secureRand)
       IN  /\ encOut' = [NoEncCall EXCEPT !.op = "Encrypt", !.val = ret.val, !.err = ret.err,
                                          !.constructed = TRUE, !.key = ret.key, !.iv = ret.iv]
           /\ secureRand' = ret.rand
           /\ encCalls' = Recorded(encCalls, ret)
    /\ UNCHANGED <<encConfig, encValue, encryptor>>
    /\ UNCHANGED <<procVars, parseVars, levVars, genVars, entVars, mainVars, wizVars>>

\* transformed, err := MaybeEncrypt(encValue, encConfig), once per generated value
MaybeEncryptEach ==
    /\ encOut.op \in {"none", "MaybeEncrypt"}
    /\ Len(encCalls) < MaxEncrypts
    /\ \E r \in Intn100 :
          LET ret == MaybeEncrypt(encValue, encConfig, r, secureRand)
          IN  /\ encOut' = [op |-> "MaybeEncrypt", val |-> ret.val, err |-> ret.err,
                            draws |-> ret.draws, constructed |-> ret.constructed,
                            key |-> ret.key, iv |-> ret.iv]
              /\ secureRand' = ret.rand
              /\ encCalls' = Recorded(encCalls, ret)
    /\ UNCHANGED <<encConfig, encValue, encryptor>>
    /\ UNCHANGED <<procVars, parseVars, levVars, genVars, entVars, mainVars, wizVars>>

-----------------------------------------------------------------------------
(* main.go: the loop over the selected fields and the generated logs *)

SignalTypeAll         == "All"
SignalTypeLevenshtein == "Levenshtein"
SignalTypeEntropy     == "Entropy"

\* contains(signals, target)
contains(signals, target) == \E k \in 1..Len(signals) : signals[k] = target

\* the AddGenerator calls main makes for one field, in order
FieldGenerators(signals, fieldName) ==
    LET useAllSignals == contains(signals, SignalTypeAll)
    IN  (IF useAllSignals \/ contains(signals, SignalTypeLevenshtein)
         THEN <<FieldLevenshteinGenerator(fieldName)>> ELSE <<>>)
        \o (IF useAllSignals \/ contains(signals, SignalTypeEntropy)
            THEN <<EntropyChangeGenerator(fieldName)>> ELSE <<>>)

\* the switch on config.DBType that picks the parser, and its ParseLog
ParseLogOf(dbType, raw) ==
    IF dbType = "oracle" THEN OracleLogParser_ParseLog(raw) ELSE PostgresLogParser_ParseLog(raw)

\* the AnomalyInput main builds for one record of one field
BuildAnomalyInput(fieldName, logData, vector) ==
    [Operation |-> logData.Operation, Table |-> logData.Table, Column |-> fieldName,
     Timestamp |-> logData.Timestamp, BeforeValue |-> Index(logData.Before, fieldName),
     AfterValue |-> Index(logData.After, fieldName), SignalVector |-> vector]

\* positions of the two loops: before the body of the outer loop for field i,
\* before the body of the inner loop for log j of field i, after both loops
Done        == [at |-> "done", field |-> 0, log |-> 0]
AtField(i)  == IF i > Len(cliConfig.SelectedFields) THEN Done
               ELSE [at |-> "field", field |-> i, log |-> 0]
AtLog(i, j) == IF j > Len(logs) THEN AtField(i + 1) ELSE [at |-> "log", field |-> i, log |-> j]

\* a loop that gives up the field's remaining logs at the first failure
AfterParseFailure_Break(i, j) == AtField(i + 1)

\* log.Printf("Failed to parse log: %v", err); continue
AfterParseFailure(i, j) == AtLog(i, j + 1)

\* the answers the wizard can give for the part main's loops read
MainConfigs ==
    [DBType : {"oracle", "postgres"},
     SelectedFields : {<<"bio">>, <<"email">>, <<"bio", "email">>},
     SelectedSignals : {<<SignalTypeAll>>, <<SignalTypeLevenshtein>>, <<SignalTypeEntropy>>,
                        <<SignalTypeLevenshtein, SignalTypeEntropy>>}]

\* raw logs: two that are no map, a nil map, and a well-formed Oracle record
LogSamples ==
    {GoNil, GoString(StrUPDATE), GoMap(NilMap), ShapedRecord("oracle", [f \in CanonFields |-> "good"])}

RECURSIVE LogsUpTo(_)
LogsUpTo(n) ==
    IF n = 0 THEN {<<>>}
    ELSE LET shorter == LogsUpTo(n - 1)
         IN  shorter \cup {Append(l, r) : l \in {t \in shorter : Len(t) = n - 1}, r \in LogSamples}

MainInit ==
    /\ cliConfig \in MainConfigs
    /\ logs \in LogsUpTo(MaxLogs)
    /\ pc = [at |-> "field", field |-> 1, log |-> 0]
    /\ processor = [generators |-> <<>>]
    /\ emitted = <<>>

MainIdle ==
    /\ cliConfig = [DBType |-> "oracle", SelectedFields |-> <<>>, SelectedSignals |-> <<>>]
    /\ logs = <<>>
    /\ pc = Done
    /\ processor = [generators |-> <<>>]
    /\ emitted = <<>>

\* the outer loop's body up to the inner loop: a new processor, its
\* generators, and the skip of a field without generators
StartField ==
    /\ pc.at = "field"
    /\ LET fieldName == cliConfig.SelectedFields[pc.field]
           gens      == FieldGenerators(cliConfig.SelectedSignals, fieldName)
       IN  /\ processor' = [generators |-> gens]
           /\ signalGeneratorNames' =
                 signalGeneratorNames \o [k \in 1..Len(gens) |-> GeneratorName(gens[k])]
           /\ pc' = IF Len(gens) = 0 THEN AtField(pc.field + 1) ELSE AtLog(pc.field, 1)
    /\ UNCHANGED <<cliConfig, logs, emitted>>
    /\ UNCHANGED <<processors, added, last>>
    /\ UNCHANGED <<parseVars, levVars, genVars, entVars, cryptVars, callVars, wizVars>>

\* the inner loop's body for one raw log
ProcessLog ==
    /\ pc.at = "log"
    /\ LET fieldName == cliConfig.SelectedFields[pc.field]
           ret       == ParseLogOf(cliConfig.DBType, logs[pc.log])
           vector    == SignalProcessor_GenerateSignalVector(processor, ret.logData)
       IN  IF ret.err # NoError
           THEN /\ pc' = AfterParseFailure(pc.field, pc.log)
                /\ UNCHANGED emitted
           ELSE /\ emitted' = Append(emitted, BuildAnomalyInput(fieldName, ret.logData, vector))
                /\ pc' = AtLog(pc.field, pc.log + 1)
    /\ UNCHANGED <<cliConfig, logs, processor>>
    /\ UNCHANGED <<procVars, parseVars, levVars, genVars, entVars, cryptVars, callVars, wizVars>>

-----------------------------------------------------------------------------
(* cli/cli.go: the configuration wizard *)

\* type Step int, numbered by iota
DBSelectionStep          == 0
FieldSelectionStep       == 1
SignalSelectionStep      == 2
EncryptionSelectionStep  == 3
EncryptionModeStep       == 4
AESKeyBitSizeStep        == 5
AESModeStep              == 6
EncryptionPercentageStep == 7
RowCountStep             == 8
ConfigSummaryStep        == 9
FinishedStep             == 10

\* the option lists of InitialModel and the CharLimit of its two text inputs
dbOptions            == <<"oracle", "postgres">>
fieldOptions         == <<"bio", "email", "phone", "address">>
signalOptions        == <<SignalTypeAll, SignalTypeLevenshtein, SignalTypeEntropy>>
encryptionOptions    == <<EncryptionTypeNone, EncryptionTypeAES, EncryptionTypeChaCha20>>
aesModeOptions       == <<"CBC", "CTR", "GCM">>
aesKeyBitSizeOptions == <<128, 192, 256>>
PercentageCharLimit  == 3
RowCountCharLimit    == 5

\* Config{}, and the Config of InitialModel
ZeroConfig ==
    [DBType |-> "", SelectedFields |-> <<>>, SelectedSignals |-> <<>>, EncryptionType |-> "",
     AESMode |-> "", AESKeyBitSize |-> 0, EncryptionPercentage |-> 0, RowCount |-> 0,
     OutputFormat |-> ""]

\* the text inputs hold the runes typed so far, the cursor behind the last one
InitialModel ==
    [step |-> DBSelectionStep, dbCursor |-> 0, fieldCursors |-> {}, fieldCursor |-> 0,
     signalCursors |-> {}, signalCursor |-> 0, encryptionCursor |-> 0, aesModeCursor |-> 0,
     aesKeyBitSizeCursor |-> 2, encryptionPercentage |-> <<>>, rowCountInput |-> <<>>,
     config |-> [ZeroConfig EXCEPT !.OutputFormat = "JSON"], err |-> NoError,
     previousSteps |-> <<>>]

\* a goBack that leaves the history as it was
goBack_KeepsHistory(m) ==
    IF Len(m.previousSteps) > 0
    THEN [m EXCEPT !.step = m.previousSteps[Len(m.previousSteps)]]
    ELSE m

goToStep(m, newStep) ==
    [m EXCEPT !.previousSteps = Append(m.previousSteps, m.step), !.step = newStep]

goBack(m) ==
    IF Len(m.previousSteps) > 0
    THEN [m EXCEPT !.step = m.previousSteps[Len(m.previousSteps)],
                   !.previousSteps = SubSeq(m.previousSteps, 1, Len(m.previousSteps) - 1)]
    ELSE m

\* the options whose index (from 0) is in the map, in option order
SelectedOptions(options, cursors) ==
    LET chosen == SelectSeq([i \in 1..Len(options) |-> i - 1], LAMBDA i : i \in cursors)
    IN  [k \in 1..Len(chosen) |-> options[chosen[k] + 1]]

\* strconv.Atoi of the runes of a text input: an optional sign, then digits only
Digits == [c \in {"0", "1", "2", "3", "4", "5", "6", "7", "8", "9"} |->
              CASE c = "0" -> 0 [] c = "1" -> 1 [] c = "2" -> 2 [] c = "3" -> 3 [] c = "4" -> 4
                [] c = "5" -> 5 [] c = "6" -> 6 [] c = "7" -> 7 [] c = "8" -> 8 [] c = "9" -> 9]

RECURSIVE DecimalValue(_)
DecimalValue(ds) ==
    IF ds = <<>> THEN 0 ELSE 10 * DecimalValue(SubSeq(ds, 1, Len(ds) - 1)) + Digits[ds[Len(ds)]]

Atoi(text) ==
    LET signed == text # <<>> /\ text[1] \in {"+", "-"}
        ds     == IF signed THEN Tail(text) ELSE text
    IN  IF ds = <<>> \/ \E k \in 1..Len(ds) : ds[k] \notin DOMAIN Digits
        THEN [val |-> 0, err |-> "invalid syntax"]
        ELSE [val |-> IF signed /\ text[1] = "-" THEN 0 - DecimalValue(ds) ELSE DecimalValue(ds),
              err |-> NoError]

\* !(err != nil || val < 0 || val > 100)
ValidPercentage(number) == ~(number.err # NoError \/ number.val < 0 \/ number.val > 100)

\* a check that lets a row count of 0 through
ValidRowCount_AcceptsZero(number) == ~(number.err # NoError \/ number.val < 0)

\* !(err != nil || val <= 0)
ValidRowCount(number) == ~(number.err # NoError \/ number.val <= 0)

\* a wizard that asks an AES user for the percentage right away
AfterEncryptionSelection_SkipsAES(encryptionType) ==
    IF encryptionType = EncryptionTypeNone THEN RowCountStep ELSE EncryptionPercentageStep

\* the step that follows the encryption selection
AfterEncryptionSelection(encryptionType) ==
    IF encryptionType = EncryptionTypeAES THEN AESModeStep
    ELSE IF encryptionType = EncryptionTypeNone THEN RowCountStep
    ELSE EncryptionPercentageStep

\* what "return m, cmd" inside the key switch hands back, and what falls
\* through to the text inputs
Return(m, cmd) == [m |-> m, cmd |-> cmd, returned |-> TRUE]
Break(m)       == [m |-> m, cmd |-> "nil", returned |-> FALSE]

\* case "enter"
OnEnter(m) ==
    CASE m.step = DBSelectionStep ->
            Break(goToStep([m EXCEPT !.config.DBType = dbOptions[m.dbCursor + 1]],
                           FieldSelectionStep))
      [] m.step = FieldSelectionStep ->
            LET fields == SelectedOptions(fieldOptions, m.fieldCursors)
            IN  IF Len(fields) = 0
                THEN Return([m EXCEPT !.err = "please select at least one field"], "nil")
                ELSE Break(goToStep([m EXCEPT !.err = NoError, !.config.SelectedFields = fields],
                                    SignalSelectionStep))
      [] m.step = SignalSelectionStep ->
            LET signals == SelectedOptions(signalOptions, m.signalCursors)
            IN  IF Len(signals) = 0
                THEN Return([m EXCEPT !.err = "please select at least one signal type"], "nil")
                ELSE Break(goToStep([m EXCEPT !.err = NoError, !.config.SelectedSignals = signals],
                                    EncryptionSelectionStep))
      [] m.step = EncryptionSelectionStep ->
            LET encryptionType == encryptionOptions[m.encryptionCursor + 1]
                chosen == [m EXCEPT !.config.EncryptionType = encryptionType]
            IN  Break(goToStep(IF encryptionType = EncryptionTypeNone
                               THEN [chosen EXCEPT !.config.EncryptionPercentage = 0]
                               ELSE chosen,
                               AfterEncryptionSelection(encryptionType)))
      [] m.step = AESModeStep ->
            Break(goToStep([m EXCEPT !.config.AESMode = aesModeOptions[m.aesModeCursor + 1]],
                           AESKeyBitSizeStep))
      [] m.step = AESKeyBitSizeStep ->
            Break(goToStep([m EXCEPT !.config.AESKeyBitSize =
                                         aesKeyBitSizeOptions[m.aesKeyBitSizeCursor + 1]],
                           EncryptionPercentageStep))
      [] m.step = EncryptionPercentageStep ->
            LET number == Atoi(m.encryptionPercentage)
            IN  IF ~ValidPercentage(number)
                THEN Return([m EXCEPT !.err = "please enter a valid percentage (0-100)"], "nil")
                ELSE Break(goToStep([m EXCEPT !.err = NoError,
                                              !.config.EncryptionPercentage = number.val],
                                    RowCountStep))
      [] m.step = RowCountStep ->
            LET number == Atoi(m.rowCountInput)
            IN  IF ~ValidRowCount(number)
                THEN Return([m EXCEPT !.err = "please enter a valid positive number"], "nil")
                ELSE Break(goToStep([m EXCEPT !.err = NoError, !.config.RowCount = number.val],
                                    ConfigSummaryStep))
      [] m.step = ConfigSummaryStep -> Return(goToStep(m, FinishedStep), "tea.Quit")
      [] OTHER -> Break(m)

\* cursor--, and the last option after the first
CursorUp(cursor, options) == IF cursor - 1 < 0 THEN Len(options) - 1 ELSE cursor - 1

\* (cursor + 1) % len(options)
CursorDown(cursor, options) == (cursor + 1) % Len(options)

\* case "up", "k" and case "down", "j": the cursor of the step's list moves
MoveCursor(m, Move(_, _)) ==
    CASE m.step = DBSelectionStep -> [m EXCEPT !.dbCursor = Move(@, dbOptions)]
      [] m.step = FieldSelectionStep -> [m EXCEPT !.fieldCursor = Move(@, fieldOptions)]
      [] m.step = SignalSelectionStep -> [m EXCEPT !.signalCursor = Move(@, signalOptions)]
      [] m.step = EncryptionSelectionStep ->
            [m EXCEPT !.encryptionCursor = Move(@, encryptionOptions)]
      [] m.step = AESModeStep -> [m EXCEPT !.aesModeCursor = Move(@, aesModeOptions)]
      [] m.step = AESKeyBitSizeStep ->
            [m EXCEPT !.aesKeyBitSizeCursor = Move(@, aesKeyBitSizeOptions)]
      [] OTHER -> m

\* if present, delete; else insert
Toggle(cursors, cursor) ==
    IF cursor \in cursors THEN cursors \ {cursor} ELSE cursors \cup {cursor}

\* a toggle of a specific signal that leaves "All" selected
ToggleSignal_KeepsAll(cursors, cursor) ==
    IF cursor = 0
    THEN IF 0 \notin cursors THEN {0} ELSE cursors \ {0}
    ELSE Toggle(cursors, cursor)

\* the space bar on the signal list
ToggleSignal(cursors, cursor) ==
    IF cursor = 0
    THEN IF 0 \notin cursors THEN {0} ELSE cursors \ {0}
    ELSE Toggle(cursors \ {0}, cursor)

\* case " "
OnSpace(m) ==
    IF m.step = FieldSelectionStep
    THEN [m EXCEPT !.fieldCursors = Toggle(@, m.fieldCursor)]
    ELSE IF m.step = SignalSelectionStep
    THEN [m EXCEPT !.signalCursors = ToggleSignal(@, m.signalCursor)]
    ELSE m

\* the keys that arrive as runes; textinput inserts them while the text is
\* shorter than CharLimit and ignores the other keys the wizard handles
TypedRunes == {"k", "j", " ", "0", "1", "-"}

TextInputUpdate(text, charLimit, msg) ==
    IF msg \in TypedRunes /\ Len(text) < charLimit THEN Append(text, msg) ELSE text

\* func (m Model) Update(msg tea.Msg) (tea.Model, tea.Cmd), for a tea.KeyMsg
Update(m, msg) ==
    LET handled ==
            CASE msg \in {"ctrl+c", "q"} -> Return(m, "tea.Quit")
              [] msg \in {"backspace", "esc"} ->
                    Return(IF m.step > DBSelectionStep THEN goBack(m) ELSE m, "nil")
              [] msg = "enter" -> OnEnter(m)
              [] msg \in {"up", "k"} -> Break(MoveCursor(m, CursorUp))
              [] msg \in {"down", "j"} -> Break(MoveCursor(m, CursorDown))
              [] msg = " " -> Break(OnSpace(m))
              [] OTHER -> Break(m)
        n == handled.m
    IN  IF handled.returned THEN [m |-> n, cmd |-> handled.cmd]
        ELSE IF n.step = EncryptionPercentageStep
        THEN [m |-> [n EXCEPT !.encryptionPercentage =
                                  TextInputUpdate(@, PercentageCharLimit, msg)],
              cmd |-> "nil"]
        ELSE IF n.step = RowCountStep
        THEN [m |-> [n EXCEPT !.rowCountInput = TextInputUpdate(@, RowCountCharLimit, msg)],
              cmd |-> "nil"]
        ELSE [m |-> n, cmd |-> "nil"]

\* a GetConfig that takes the summary step for the end
GetConfigReturn_AtSummary(m) ==
    IF m.step < ConfigSummaryStep
    THEN [config |-> ZeroConfig, err |-> "configuration cancelled"]
    ELSE [config |-> m.config, err |-> NoError]

\* what GetConfig returns for the Model the program ended with
GetConfigReturn(m) ==
    IF m.step # FinishedStep
    THEN [config |-> ZeroConfig, err |-> "configuration cancelled"]
    ELSE [config |-> m.config, err |-> NoError]

\* func (c *Config) GetEncryptionConfig() logsimulator.EncryptionConfig
GetEncryptionConfig(c) ==
    IF c.EncryptionType = EncryptionTypeAES
    THEN [Type |-> c.EncryptionType, Percentage |-> c.EncryptionPercentage,
          AESMode |-> c.AESMode, KeySize |-> c.AESKeyBitSize \div 8]
    ELSE [Type |-> c.EncryptionType, Percentage |-> c.EncryptionPercentage,
          AESMode |-> "", KeySize |-> 0]

\* the steps whose view shows m.err
ShowsError(step) ==
    step \in {FieldSelectionStep, SignalSelectionStep, EncryptionPercentageStep, RowCountStep}

NoCall_GetConfig == [called |-> FALSE, config |-> ZeroConfig, err |-> NoError]
NoRejection      == [rejected |-> FALSE, step |-> DBSelectionStep]

WizInit ==
    /\ model = InitialModel
    /\ program = "running"
    /\ keyCount = 0
    /\ rejection = NoRejection
    /\ getConfig = NoCall_GetConfig

WizIdle ==
    /\ model = InitialModel
    /\ program = "ended"
    /\ keyCount = 0
    /\ rejection = NoRejection
    /\ getConfig = NoCall_GetConfig

\* one key event: the program calls Update and stops when the command is tea.Quit
KeyMsg(msg, maxKeys) ==
    /\ program = "running"
    /\ keyCount < maxKeys
    /\ LET ret == Update(model, msg)
       IN  /\ model' = ret.m
           /\ program' = IF ret.cmd = "tea.Quit" THEN "ended" ELSE "running"
           /\ rejection' = IF ret.m.step # model.step THEN NoRejection
                           ELSE IF msg = "enter" /\ ShowsError(model.step)
                           THEN [rejected |-> TRUE, step |-> model.step]
                           ELSE rejection
    /\ keyCount' = keyCount + 1
    /\ UNCHANGED getConfig
    /\ UNCHANGED <<procVars, parseVars, levVars, genVars, entVars, cryptVars, callVars, mainVars>>

\* the keys of the switch in Update, and the runes that reach a text input
PressQuit  == \E msg \in {"ctrl+c", "q"} : KeyMsg(msg, MaxKeys)
PressBack  == \E msg \in {"backspace", "esc"} : KeyMsg(msg, MaxKeys)
PressEnter == KeyMsg("enter", MaxKeys)
PressUp    == \E msg \in {"up", "k"} : KeyMsg(msg, MaxKeys)
PressDown  == \E msg \in {"down", "j"} : KeyMsg(msg, MaxKeys)
PressSpace == KeyMsg(" ", MaxKeys)
TypeRune   == \E msg \in {"0", "1", "-"} : KeyMsg(msg, MaxKeys)

\* a user who walks the lists downwards with the arrow key, types digits and
\* never quits, followed for more key events
PathBack  == KeyMsg("esc", MaxPathKeys)
PathEnter == KeyMsg("enter", MaxPathKeys)
PathDown  == KeyMsg("down", MaxPathKeys)
PathSpace == KeyMsg(" ", MaxPathKeys)
PathDigit == \E msg \in {"0", "1"} : KeyMsg(msg, MaxPathKeys)

\* p.Run() has returned the final Model
GetConfig ==
    /\ program = "ended"
    /\ ~getConfig.called
    /\ getConfig' = [called |-> TRUE] @@ GetConfigReturn(model)
    /\ UNCHANGED <<model, program, keyCount, rejection>>
    /\ UNCHANGED <<procVars, parseVars, levVars, genVars, entVars, cryptVars, callVars, mainVars>>

-----------------------------------------------------------------------------
(* Specifications *)

\* the SignalProcessor pipeline
Init == ProcInit /\ ParseIdle /\ LevIdle /\ GenIdle /\ EntIdle /\ CryptIdle
    /\ CallsIdle /\ MainIdle /\ WizIdle

Next ==
    \/ NewProcessor
    \/ \E p \in 1..Len(processors), gen \in Generators : AddGenerator(p, gen)
    \/ \E p \in 1..Len(processors), logData \in PipeLogData : GenerateSignalVector(p, logData)
    \/ LogAnomalyInput

Spec == Init /\ [][Next]_vars

\* the parsers
InitParse == ProcInit /\ ParseInit /\ LevIdle /\ GenIdle /\ EntIdle /\ CryptIdle
    /\ CallsIdle /\ MainIdle /\ WizIdle

NextParse == OracleParseLog \/ PostgresParseLog

SpecParse == InitParse /\ [][NextParse]_vars

\* levenshteinDistance
InitLev == ProcInit /\ ParseIdle /\ LevInit /\ GenIdle /\ EntIdle /\ CryptIdle
    /\ CallsIdle /\ MainIdle /\ WizIdle

NextLev == InsertRune \/ DeleteRune \/ SubstituteRune \/ CallLevenshtein

SpecLev == InitLev /\ [][NextLev]_vars

\* the generators
InitGen == ProcInit /\ ParseIdle /\ LevIdle /\ GenInit /\ EntIdle /\ CryptIdle
    /\ CallsIdle /\ MainIdle /\ WizIdle

NextGen == CallLevenshteinGenerator \/ CallEntropyGenerator

SpecGen == InitGen /\ [][NextGen]_vars

\* calculateEntropy
InitEnt == ProcInit /\ ParseIdle /\ LevIdle /\ GenIdle /\ EntInit /\ CryptIdle
    /\ CallsIdle /\ MainIdle /\ WizIdle

NextEnt == CallCalculateEntropy

SpecEnt == InitEnt /\ [][NextEnt]_vars

\* the encryption simulator
InitCrypt == ProcInit /\ ParseIdle /\ LevIdle /\ GenIdle /\ EntIdle /\ CryptInit
    /\ CallsIdle /\ MainIdle /\ WizIdle

NextCrypt == CallMaybeEncrypt \/ CallGetEncryptor \/ CallEncrypt

SpecCrypt == InitCrypt /\ [][NextCrypt]_vars

\* padPKCS7, alone and inside the AES-CBC strategy
InitPad == ProcInit /\ ParseIdle /\ LevIdle /\ GenIdle /\ EntIdle /\ PadInit
    /\ CallsIdle /\ MainIdle /\ WizIdle

NextPad == CallPadPKCS7 \/ CallGetEncryptor \/ CallEncrypt

SpecPad == InitPad /\ [][NextPad]_vars

\* repeated Encrypt calls
InitCalls == ProcInit /\ ParseIdle /\ LevIdle /\ GenIdle /\ EntIdle /\ CallsInit
    /\ MainIdle /\ WizIdle

NextCalls == CallGetEncryptor \/ EncryptOnInstance \/ MaybeEncryptEach

SpecCalls == InitCalls /\ [][NextCalls]_vars

\* main's processing loops
InitMain == ProcInit /\ ParseIdle /\ LevIdle /\ GenIdle /\ EntIdle /\ CryptIdle
    /\ CallsIdle /\ MainInit /\ WizIdle

NextMain == StartField \/ ProcessLog

SpecMain == InitMain /\ [][NextMain]_vars

\* the entropy generator in float64
InitGen64 == ProcInit /\ ParseIdle /\ LevIdle /\ Gen64Init /\ EntIdle /\ CryptIdle
    /\ CallsIdle /\ MainIdle /\ WizIdle

NextGen64 == GenerateSignalVector64

SpecGen64 == InitGen64 /\ [][NextGen64]_vars

\* the wizard
InitWiz == ProcInit /\ ParseIdle /\ LevIdle /\ GenIdle /\ EntIdle /\ CryptIdle
    /\ CallsIdle /\ MainIdle /\ WizInit

NextWiz ==
    \/ PressQuit
    \/ PressBack
    \/ PressEnter
    \/ PressUp
    \/ PressDown
    \/ PressSpace
    \/ TypeRune
    \/ GetConfig

SpecWiz == InitWiz /\ [][NextWiz]_vars

\* the wizard, up to the end of its longest path
NextWizPath == PathBack \/ PathEnter \/ PathDown \/ PathSpace \/ PathDigit \/ GetConfig

SpecWizPath == InitWiz /\ [][NextWizPath]_vars

-----------------------------------------------------------------------------
(* Properties of the SignalProcessor pipeline (Spec) *)

\* a vector was returned by the last call, or by the call before LogAnomalyInput
HasVector == last.op \in {"GenerateSignalVector", "LogAnomalyInput"}

\* the field of a generator is missing from Before or from After
FieldAbsent(gen, logData) ==
    \/ gen.FieldName \notin DOMAIN logData.Before.kv
    \/ gen.FieldName \notin DOMAIN logData.After.kv

\* C1: after n AddGenerator calls on a processor, GenerateSignalVector returns
\* exactly n elements for every LogData, and the positions whose field is absent
\* from Before or After hold 0.0.
C1_VectorLength ==
    HasVector =>
        /\ Len(last.vector) = Len(added[last.proc])
        /\ \A i \in 1..Len(added[last.proc]) :
              FieldAbsent(added[last.proc][i], last.logData) => last.vector[i] = RZero

\* a two-element vector over a record that lacks one generator's field and not the other's
C1_Witness ==
    /\ last.op = "GenerateSignalVector"
    /\ Len(last.vector) = 2
    /\ \E i, j \in 1..2 :
          /\ FieldAbsent(added[last.proc][i], last.logData)
          /\ last.vector[i] = RZero
          /\ last.vector[j] # RZero

\* every generator already registered keeps its position in every step
C2_PositionsKept ==
    \A p \in 1..Len(processors) :
        /\ Len(processors'[p].generators) >= Len(processors[p].generators)
        /\ \A i \in 1..Len(processors[p].generators) :
              processors'[p].generators[i] = processors[p].generators[i]

\* the registry is the sequence of generators in the order they were added, and
\* element i of a vector is the signal of the i-th generator added
C2_InsertionOrder ==
    /\ \A p \in 1..Len(processors) : processors[p].generators = added[p]
    /\ HasVector =>
          \A i \in 1..Len(last.vector) :
              last.vector[i] = GenerateSignal(added[last.proc][i], last.logData)

\* C2: registry order is insertion order and is never reordered: element i of
\* every vector is the signal of the i-th generator added, and a later
\* AddGenerator only appends, leaving every earlier generator where it was.
C2_RegistryOrder == [](C2_InsertionOrder) /\ [][C2_PositionsKept]_vars

\* a vector of two different signals from two different generators
C2_Witness ==
    /\ last.op = "GenerateSignalVector"
    /\ Len(added[last.proc]) = 2
    /\ added[last.proc][1] # added[last.proc][2]
    /\ last.vector[1] # last.vector[2]

\* C3: the display names are parallel to each processor's registry: the name
\* that labels position i of a processor's vector is the name of that
\* processor's i-th generator, and there are as many names as generators.
C3_NamesParallel ==
    last.op = "LogAnomalyInput" =>
        /\ Len(signalGeneratorNames) = Len(processors[last.proc].generators)
        /\ \A i \in 1..Len(last.strs) :
              last.strs[i].name = GeneratorName(processors[last.proc].generators[i])

-----------------------------------------------------------------------------
(* Properties of the parsers (SpecParse) *)

\* a raw record is a key/value mapping when it is a map[string]interface{}
IsMapping(raw) == raw.type = "map[string]interface{}"

\* C4: a raw record that is not a key/value mapping (a bare string, nil, a
\* number) makes either parser return an error and the zero LogData.
C4_MalformedRecord ==
    (parsed.called /\ ~IsMapping(rawLog)) =>
        /\ parsed.err # NoError
        /\ parsed.logData = ZeroLogData
        /\ parsed.logData.Operation = <<>>
        /\ parsed.logData.Before = NilMap

\* a bare string was parsed and refused
C4_Witness ==
    /\ parsed.called
    /\ rawLog = GoString(StrUPDATE)
    /\ parsed.err = "invalid log format"

\* the type each canonical field expects of its key's value, and its zero value
ExpectedType(f) ==
    CASE f \in {"Operation", "Table", "RowIdentifier"} -> "string"
      [] f = "Columns"   -> "[]string"
      [] f = "Timestamp" -> "time.Time"
      [] f \in {"Before", "After"} -> "map[string]interface{}"

ZeroOf(f) ==
    CASE f \in {"Operation", "Table", "RowIdentifier"} -> <<>>
      [] f = "Columns"   -> NilSlice
      [] f = "Timestamp" -> ZeroTime
      [] f \in {"Before", "After"} -> NilMap

\* the key each dialect reads for a canonical field, as the specification's table gives it
TableKey(dialect, f) ==
    CASE f = "Operation"     -> IF dialect = "oracle" THEN "action" ELSE "operation"
      [] f = "Table"         -> IF dialect = "oracle" THEN "table_name" ELSE "table"
      [] f = "RowIdentifier" -> IF dialect = "oracle" THEN "rowid" ELSE "primary_key"
      [] f = "Columns"       -> "changed_columns"
      [] f = "Timestamp"     -> "timestamp"
      [] f = "Before"        -> IF dialect = "oracle" THEN "before_values" ELSE "old_values"
      [] f = "After"         -> IF dialect = "oracle" THEN "after_values" ELSE "new_values"

\* the key of f is absent from the record or holds a value of the wrong type
MissingOrMistyped(raw, dialect, f) ==
    \/ TableKey(dialect, f) \notin DOMAIN raw.val.kv
    \/ raw.val.kv[TableKey(dialect, f)].type # ExpectedType(f)

\* C5: for a raw record that is a mapping ParseLog returns no error, whatever
\* subset of the expected keys is absent or mistyped; each such field is the
\* zero value and every other field carries the value of its key.
C5_MissingOrMistypedField ==
    (parsed.called /\ IsMapping(rawLog)) =>
        /\ parsed.err = NoError
        /\ \A f \in CanonFields :
              IF MissingOrMistyped(rawLog, parser, f)
              THEN parsed.logData[f] = ZeroOf(f)
              ELSE parsed.logData[f] = rawLog.val.kv[TableKey(parser, f)].val

\* a record with one key absent, one mistyped and one well-typed was parsed
C5_Witness ==
    /\ parsed.called
    /\ IsMapping(rawLog)
    /\ TableKey(parser, "Operation") \notin DOMAIN rawLog.val.kv
    /\ "timestamp" \in DOMAIN rawLog.val.kv
    /\ rawLog.val.kv["timestamp"].type = "string"
    /\ TableKey(parser, "After") \in DOMAIN rawLog.val.kv
    /\ parsed.logData.After = GoodValue("After").val
    /\ parsed.logData.Operation = <<>>
    /\ parsed.logData.Timestamp = ZeroTime

\* the record has exactly the seven keys of the dialect, each well-typed
WellTypedFor(raw, dialect) ==
    /\ IsMapping(raw)
    /\ DOMAIN raw.val.kv = {TableKey(dialect, f) : f \in CanonFields}
    /\ \A f \in CanonFields : raw.val.kv[TableKey(dialect, f)].type = ExpectedType(f)

OtherDialect(dialect) == IF dialect = "oracle" THEN "postgres" ELSE "oracle"

\* C6: each parser maps the keys of its dialect to Operation, Table,
\* RowIdentifier, Columns, Timestamp, Before, After, so records of the two
\* dialects carrying the same values normalize to the same LogData; a record
\* keyed for the other dialect yields no error and empty Operation, Table,
\* RowIdentifier, Before and After.
C6_DialectMapping ==
    parsed.called =>
        /\ WellTypedFor(rawLog, parser) =>
              /\ parsed.err = NoError
              /\ \A f \in CanonFields :
                    parsed.logData[f] = rawLog.val.kv[TableKey(parser, f)].val
              /\ parsed.logData = [f \in CanonFields |-> GoodValue(f).val]
        /\ WellTypedFor(rawLog, OtherDialect(parser)) =>
              /\ parsed.err = NoError
              /\ \A f \in {"Operation", "Table", "RowIdentifier"} : parsed.logData[f] = <<>>
              /\ parsed.logData.Before.kv = <<>>
              /\ parsed.logData.After.kv = <<>>

\* an Oracle-shaped record went through the Postgres parser
C6_Witness ==
    /\ parsed.called
    /\ parser = "postgres"
    /\ WellTypedFor(rawLog, "oracle")
    /\ parsed.logData.RowIdentifier = <<>>
    /\ parsed.logData.Columns = GoodValue("Columns").val

-----------------------------------------------------------------------------
(* Properties of levenshteinDistance (SpecLev) *)

\* the strings within k single-rune edits of a string of S, no longer than maxLen
RECURSIVE WithinEdits(_, _, _)
WithinEdits(S, k, maxLen) ==
    IF k = 0 THEN S
    ELSE WithinEdits(S \cup {t \in UNION {OneEdit(s) : s \in S} : Len(t) <= maxLen},
                     k - 1, maxLen)

\* the minimum number of single-rune insertions, deletions and substitutions that
\* turn a into b (a shortest script never passes a string longer than both)
EditDistance(a, b) ==
    LET m == IF Len(a) > Len(b) THEN Len(a) ELSE Len(b)
    IN  CHOOSE k \in 0..m :
            /\ b \in WithinEdits({a}, k, m)
            /\ \A j \in 0..(k - 1) : b \notin WithinEdits({a}, j, m)

Kitten  == <<107, 105, 116, 116, 101, 110>>
Sitting == <<115, 105, 116, 116, 105, 110, 103>>

\* C7: levenshteinDistance(a, b) is the minimum number of single-character
\* insert, delete and substitute operations that turn a into b, also when a
\* character takes more than one byte; d("kitten","sitting") = 3 and the
\* distance to or from the empty string is the other string's length.
C7_MinimumEdits ==
    /\ levenshteinDistance(Kitten, Sitting) = 3
    /\ dist.called =>
          /\ dist.val = EditDistance(s1, s2)
          /\ dist.val <= edits
          /\ s1 = <<>> => dist.val = Len(s2)
          /\ s2 = <<>> => dist.val = Len(s1)

\* C8: levenshteinDistance(a,b) = levenshteinDistance(b,a),
\* levenshteinDistance(a,a) = 0 and levenshteinDistance(a,b) <= len(a) + len(b),
\* len being the length the function itself uses.
C8_Metric ==
    dist.called =>
        /\ dist.val = levenshteinDistance(s2, s1)
        /\ (s1 = s2 => dist.val = 0)
        /\ dist.val >= 0
        /\ dist.val <= GoLen(s1) + GoLen(s2)

\* the distance of two different strings of different lengths, one with a two-byte rune
C8_Witness ==
    /\ dist.called
    /\ dist.val > 0
    /\ Len(s1) # Len(s2)
    /\ \E i \in 1..Len(s2) : s2[i] > 127

-----------------------------------------------------------------------------
(* Properties of the generators (SpecGen) *)

\* C9: FieldLevenshteinGenerator.GenerateSignal returns the edit distance of
\* Before[field] and After[field] exactly when both are present and are
\* strings, and 0.0 in every other case (key missing, map nil, value not a string).
C9_LevenshteinSignal ==
    (genKind = "FieldLevenshteinGenerator" /\ genSignal.called) =>
        LET hasBefore == genField \in DOMAIN genLogData.Before.kv
            hasAfter  == genField \in DOMAIN genLogData.After.kv
        IN  IF /\ hasBefore
               /\ hasAfter
               /\ genLogData.Before.kv[genField].type = "string"
               /\ genLogData.After.kv[genField].type = "string"
            THEN genSignal.val = RInt(EditDistance(genLogData.Before.kv[genField].val,
                                                   genLogData.After.kv[genField].val))
            ELSE genSignal.val = RZero

-----------------------------------------------------------------------------
(* Properties of calculateEntropy (SpecEnt) *)

Symbols(s)     == {s[i] : i \in 1..Len(s)}
CountOf(s, r)  == Cardinality({i \in 1..Len(s) : s[i] = r})

\* every distinct symbol of s occurs the same number of times
EquallyFrequent(s) ==
    /\ s # <<>>
    /\ \A r, q \in Symbols(s) : CountOf(s, r) = CountOf(s, q)

\* C10: the entropy of a string of k equally frequent distinct symbols is
\* log2(k) (H("abcd") = 2.0, H("aaaa") = 0.0), and H("") = 0.0.
C10_EqualFrequencies ==
    entOut.called =>
        /\ entIn = <<>> => entOut.val = RZero
        /\ entIn = <<97, 98, 99, 100>> => entOut.val = RInt(2)
        /\ entIn = <<97, 97, 97, 97>> => entOut.val = RZero
        /\ EquallyFrequent(entIn) =>
              entOut.val = Log2Ratio(Cardinality(Symbols(entIn)), 1)

\* the sum of the bucket counts of a histogram
RECURSIVE SumCounts(_, _)
SumCounts(freq, todo) ==
    IF todo = {} THEN 0
    ELSE LET r == CHOOSE x \in todo : TRUE
         IN  freq[r] + SumCounts(freq, todo \ {r})

\* the sum of the probabilities count / length over the buckets
RECURSIVE SumProbabilities(_, _, _)
SumProbabilities(freq, todo, length) ==
    IF todo = {} THEN RZero
    ELSE LET r == CHOOSE x \in todo : TRUE
         IN  RSub(SumProbabilities(freq, todo \ {r}, length),
                  RScale(RInt(-1), freq[r], length))

\* C11: for every non-empty string calculateEntropy works on a frequency
\* distribution: one bucket per distinct symbol, bucket counts that sum to the
\* length used as the denominator, hence probabilities that sum to 1, also
\* when a character takes more than one byte.
C11_FrequencyDistribution ==
    (entOut.called /\ entIn # <<>>) =>
        LET freq   == Freq(entIn)
            length == GoLen(entIn)
        IN  /\ entOut.val = EntropySum(freq, DOMAIN freq, length, RZero)
            /\ DOMAIN freq = Symbols(entIn)
            /\ SumCounts(freq, DOMAIN freq) = length
            /\ SumProbabilities(freq, DOMAIN freq, length) = RInt(1)

-----------------------------------------------------------------------------
(* Properties of EntropyChangeGenerator (SpecGen) *)

\* H(s) = - SUM p(c) log2 p(c) over the distinct characters c of s, p(c) being
\* the share of the characters of s that are c
ShannonEntropy(s) ==
    IF s = <<>> THEN RZero ELSE EntropySum(Freq(s), DOMAIN Freq(s), Len(s), RZero)

\* a LogData whose Before and After hold one string each for the field
StringChange(field, before, after) ==
    [ZeroLogData EXCEPT !.Before = MakeMap([f \in {field} |-> GoString(before)]),
                        !.After  = MakeMap([f \in {field} |-> GoString(after)])]

\* the LogData with Before and After exchanged
Swapped(logData) == [logData EXCEPT !.Before = logData.After, !.After = logData.Before]

\* C12: EntropyChangeGenerator.GenerateSignal returns H(After[field]) -
\* H(Before[field]) when both values are present and are strings (2.0 for
\* "aaaa" -> "abcd"; swapping negates the signal; equal values give 0), and 0.0
\* when either value is missing or not a string.
C12_EntropySignal ==
    /\ EntropyChangeGenerator_GenerateSignal(
           EntropyChangeGenerator("bio"),
           StringChange("bio", <<97, 97, 97, 97>>, <<97, 98, 99, 100>>)) = RInt(2)
    /\ (genKind = "EntropyChangeGenerator" /\ genSignal.called) =>
          LET before == Index(genLogData.Before, genField)
              after  == Index(genLogData.After, genField)
          IN  IF before.type = "string" /\ after.type = "string"
              THEN /\ genSignal.val = RSub(ShannonEntropy(after.val), ShannonEntropy(before.val))
                   /\ EntropyChangeGenerator_GenerateSignal(
                          EntropyChangeGenerator(genField), Swapped(genLogData))
                      = RSub(RZero, genSignal.val)
                   /\ before.val = after.val => genSignal.val = RZero
              ELSE genSignal.val = RZero

-----------------------------------------------------------------------------
(* Properties of the encryption simulator (SpecCrypt) *)

\* crypto/rand as it was before the first call
FreshRand == [reads |-> 0, failAt |-> secureRand.failAt]

\* a read of crypto/rand has failed
ReadFailed == secureRand.failAt \in 1..secureRand.reads

\* C13: if key, IV or nonce generation fails while MaybeEncrypt is transforming
\* a value, in the strategy's constructor or inside Encrypt, MaybeEncrypt
\* returns the original value unchanged and no error.
C13_RandomnessFailure ==
    (encOut.op = "MaybeEncrypt" /\ ReadFailed) =>
        /\ encOut.val = encValue
        /\ encOut.err = NoError

\* a Percentage outside [0,100], or a KeySize that is neither unset nor 16, 24, 32
InvalidConfig(c) ==
    \/ c.Percentage < 0
    \/ c.Percentage > 100
    \/ c.KeySize \notin {0, 16, 24, 32}

\* C14: a configuration whose Percentage is outside [0,100] or whose KeySize is
\* outside {16,24,32} is rejected as a configuration error: MaybeEncrypt returns
\* an error and the value untransformed, whatever the Type and the random draw.
C14_ConfigRejected ==
    (encOut.op = "MaybeEncrypt" /\ InvalidConfig(encConfig)) =>
        /\ encOut.err # NoError
        /\ encOut.val = encValue

\* the configurations GetEncryptor has to refuse
Unsupported(c) ==
    \/ c.Type \notin {"None", "AES", "ChaCha20"}
    \/ c.Type = "AES" /\ c.KeySize \notin {0, 16, 24, 32}
    \/ c.Type = "AES" /\ c.AESMode \notin {"", "CBC", "CTR", "GCM"}

\* C15: GetEncryptor returns an error and no encryptor for AES with a KeySize
\* other than 0, 16, 24, 32, for AES with a mode other than "", CBC, CTR, GCM,
\* and for a Type other than None, AES, ChaCha20; for every other configuration
\* it returns an encryptor and no error unless the randomness read fails.
C15_GetEncryptorErrors ==
    encOut.op = "GetEncryptor" =>
        IF Unsupported(encConfig)
        THEN encOut.err # NoError /\ encryptor = NilEncryptor
        ELSE IF ReadFailed
        THEN encOut.err # NoError
        ELSE /\ encOut.err = NoError
             /\ encryptor.type # "nil"
             /\ ~encryptor.isNilPtr

\* GetEncryptor refused AES with a 20-byte key
C15_Witness ==
    /\ encOut.op = "GetEncryptor"
    /\ encConfig.Type = "AES"
    /\ encConfig.KeySize = 20
    /\ encConfig.AESMode = "GCM"
    /\ encOut.err = "invalid AES key size: must be 16, 24, or 32 bytes"
    /\ encryptor = NilEncryptor

\* C16: with Type None, MaybeEncrypt returns the value unchanged and no error
\* for every Percentage, AESMode and KeySize, and the None strategy's Encrypt
\* is the identity.
C16_NoneIdentity ==
    /\ (encOut.op = "MaybeEncrypt" /\ encConfig.Type = "None") =>
          encOut.val = encValue /\ encOut.err = NoError
    /\ (encOut.op = "Encrypt" /\ encConfig.Type = "None") =>
          /\ encryptor.type = "*NoneEncryptor"
          /\ encOut.val = encValue
          /\ encOut.err = NoError

\* the None strategy was obtained and applied to a non-empty value
C16_Witness ==
    /\ encOut.op = "Encrypt"
    /\ encConfig.Type = "None"
    /\ encConfig.Percentage = 100
    /\ encConfig.KeySize = 20
    /\ encValue = <<233, 98>>
    /\ encOut.val = <<233, 98>>

\* C17: with Percentage 0, MaybeEncrypt returns the input unmodified for every
\* value and Type, draws no random number and constructs no strategy.
C17_ZeroPercent ==
    (encOut.op = "MaybeEncrypt" /\ encConfig.Percentage = 0) =>
        /\ encOut.val = encValue
        /\ encOut.err = NoError
        /\ encOut.draws = <<>>
        /\ ~encOut.constructed
        /\ secureRand.reads = 0

\* MaybeEncrypt returned at 0 percent for a cipher whose key read would have failed
C17_Witness ==
    /\ encOut.op = "MaybeEncrypt"
    /\ encConfig.Percentage = 0
    /\ encConfig.Type = "ChaCha20"
    /\ secureRand.failAt = 1
    /\ encValue = <<97>>
    /\ encOut.val = <<97>>

HasPrefix(s, prefix) ==
    Len(s) >= Len(prefix) /\ SubSeq(s, 1, Len(prefix)) = prefix

\* a configuration whose Type, mode and key size GetEncryptor supports, other than None
SupportedCipher(c) == c.Type \in {"AES", "ChaCha20"} /\ ~Unsupported(c)

\* "128", "192", "256" for the key sizes 16, 24, 32 (and the unset 0)
KeyBitsText(keySize) ==
    CASE keySize = 16 -> <<49, 50, 56>>
      [] keySize = 24 -> <<49, 57, 50>>
      [] keySize \in {0, 32} -> <<50, 53, 54>>

\* "CBC", "CTR", "GCM" for the modes ("" is CBC)
ModeText(mode) ==
    CASE mode \in {"", "CBC"} -> <<67, 66, 67>>
      [] mode = "CTR" -> <<67, 84, 82>>
      [] mode = "GCM" -> <<71, 67, 77>>

\* "AES-{bits}-{mode}:" or "ChaCha20:"
AlgorithmPrefix(c) ==
    IF c.Type = "ChaCha20" THEN <<67, 104, 97, 67, 104, 97, 50, 48, 58>>
    ELSE <<65, 69, 83, 45>> \o KeyBitsText(c.KeySize) \o <<45>> \o ModeText(c.AESMode) \o <<58>>

\* base64 text: groups of four alphabet characters, '=' only as the last one or two
IsBase64(t) ==
    /\ Len(t) % 4 = 0
    /\ \A i \in 1..Len(t) :
          \/ t[i] = Base64Char
          \/ t[i] = 61 /\ i >= Len(t) - 1 /\ (i < Len(t) => t[i + 1] = 61)

\* s is a tagged string of the configured strategy
Tagged(s, c) ==
    /\ HasPrefix(s, AlgorithmPrefix(c))
    /\ Len(s) > Len(AlgorithmPrefix(c))
    /\ IsBase64(SubSeq(s, Len(AlgorithmPrefix(c)) + 1, Len(s)))

\* C18: with Percentage 100 and a supported Type, MaybeEncrypt never returns
\* the unmodified input: for every value (and every draw, the key and IV having
\* been generated) the result is the algorithm prefix of the configured
\* strategy, "AES-{bits}-{CBC|CTR|GCM}:" or "ChaCha20:", followed by base64 text.
C18_FullPercent ==
    (/\ encOut.op = "MaybeEncrypt"
     /\ encConfig.Percentage = 100
     /\ SupportedCipher(encConfig)
     /\ ~ReadFailed) =>
        /\ encOut.err = NoError
        /\ encOut.val # encValue
        /\ Len(encOut.val) > Len(encValue)
        /\ Tagged(encOut.val, encConfig)

\* an AES-192-CTR transform of a two-character value at 100 percent
C18_Witness ==
    /\ encOut.op = "MaybeEncrypt"
    /\ encConfig = [Type |-> "AES", Percentage |-> 100, AESMode |-> "CTR", KeySize |-> 24]
    /\ encValue = <<233, 98>>
    /\ HasPrefix(encOut.val, <<65, 69, 83, 45, 49, 57, 50, 45, 67, 84, 82, 58>>)
    /\ Len(encOut.val) = 12 + 28

\* C19: with a Type other than None and 0 < Percentage < 100, MaybeEncrypt
\* draws exactly one integer r in [0,100); it goes on to transform the value
\* if and only if r < Percentage and returns the value unchanged when
\* r >= Percentage, so exactly Percentage of the 100 draws lead to a transform.
C19_DrawDecides ==
    (/\ encOut.op = "MaybeEncrypt"
     /\ encConfig.Type # "None"
     /\ encConfig.Percentage > 0
     /\ encConfig.Percentage < 100) =>
        /\ Len(encOut.draws) = 1
        /\ encOut.draws[1] \in 0..99
        /\ encOut.draws[1] >= encConfig.Percentage =>
              /\ encOut.val = encValue
              /\ encOut.err = NoError
              /\ ~encOut.constructed
        /\ encOut.draws[1] < encConfig.Percentage =>
              /\ encOut.constructed
              /\ (SupportedCipher(encConfig) /\ ~ReadFailed) => Tagged(encOut.val, encConfig)
        \* counted once for each configuration and value, in the state of the draw 0
        /\ encOut.draws[1] = 0 =>
              Cardinality({r \in 0..99 :
                  MaybeEncrypt(encValue, encConfig, r, FreshRand).constructed})
              = encConfig.Percentage

\* at 37 percent the draw 36 led to a ChaCha20 transform
C19_Witness ==
    /\ encOut.op = "MaybeEncrypt"
    /\ encConfig.Type = "ChaCha20"
    /\ encConfig.Percentage = 37
    /\ encOut.draws = <<36>>
    /\ encOut.err = NoError
    /\ encOut.val # encValue

\* the configuration with its unset AES fields given their defaults
Defaulted(c) ==
    [c EXCEPT !.KeySize = IF @ = 0 THEN 32 ELSE @, !.AESMode = IF @ = "" THEN "CBC" ELSE @]

AESUnset(c) == c.Type = "AES" /\ c.KeySize = 0 /\ c.AESMode = ""

\* what GetEncryptor returns for an AES configuration with unset fields is what
\* it returns for the defaults, and Encrypt tags its output AES-256-CBC
C20_DefaultsApplied ==
    /\ (encOut.op = "GetEncryptor" /\ encConfig.Type = "AES") =>
          /\ encryptor = GetEncryptor(Defaulted(encConfig), FreshRand).enc
          /\ encOut.err = GetEncryptor(Defaulted(encConfig), FreshRand).err
          /\ (AESUnset(encConfig) /\ encOut.err = NoError) =>
                /\ encryptor.type = "*AESCBCEncryptor"
                /\ ~encryptor.isNilPtr
                /\ encryptor.key.len = 32
    /\ (encOut.op = "Encrypt" /\ AESUnset(encConfig) /\ encOut.err = NoError) =>
          HasPrefix(encOut.val, <<65, 69, 83, 45, 50, 53, 54, 45, 67, 66, 67, 58>>)

\* C20: for Type AES an unset KeySize (0) behaves as 32 and an unset AESMode
\* ("") as CBC: GetEncryptor returns the AES-CBC strategy with a 32-byte key,
\* whose output is tagged "AES-256-CBC:", and no call modifies the caller's
\* configuration.
C20_Defaults == [](C20_DefaultsApplied) /\ [][encConfig' = encConfig]_vars

\* the strategy of an AES configuration with both fields unset has encrypted a value
C20_Witness ==
    /\ encOut.op = "Encrypt"
    /\ AESUnset(encConfig)
    /\ encryptor.key.len = 32
    /\ encOut.err = NoError
    /\ encValue = <<97>>
    /\ Len(encOut.val) = 12 + 44

-----------------------------------------------------------------------------
(* Properties of padPKCS7 (SpecPad) *)

\* the text after the first ':' of a tagged value
RECURSIVE AfterColon(_)
AfterColon(s) ==
    IF s = <<>> THEN <<>> ELSE IF Head(s) = 58 THEN Tail(s) ELSE AfterColon(Tail(s))

\* the number of bytes base64.StdEncoding decodes a text to: three per group
\* of four characters, less one per '='
DecodedLen(text) ==
    3 * (Len(text) \div 4) - Cardinality({i \in 1..Len(text) : text[i] = 61})

\* the bytes padPKCS7 appended to the plaintext
Appended == SubSeq(encOut.val, GoLen(encValue) + 1, Len(encOut.val))

\* C21: padPKCS7 with block size 16 appends p = 16 - (L mod 16) bytes to a
\* plaintext of L bytes, all equal to p, with 1 <= p <= 16 and a full block
\* when L is a multiple of 16, so the padded length is a multiple of 16
\* greater than L; and the decoded AES-CBC output less its 16-byte IV is a
\* positive multiple of 16 bytes long.
C21_PKCS7Padding ==
    LET L == GoLen(encValue)
        p == 16 - (L % 16)
    IN  /\ encOut.op = "padPKCS7" =>
              /\ SubSeq(encOut.val, 1, L) = UTF8(encValue)
              /\ Len(Appended) = p
              /\ \A i \in 1..Len(Appended) : Appended[i] = p
              /\ 1 <= p /\ p <= 16
              /\ (L % 16 = 0 => p = 16)
              /\ Len(encOut.val) % 16 = 0
              /\ Len(encOut.val) > L
        /\ (encOut.op = "Encrypt" /\ encOut.err = NoError) =>
              LET body == DecodedLen(AfterColon(encOut.val)) - 16
              IN  /\ body > 0
                  /\ body % 16 = 0
                  /\ body = L + p

\* a plaintext of two full blocks was padded with a third
C21_Witness ==
    /\ encOut.op = "padPKCS7"
    /\ GoLen(encValue) = 32
    /\ Len(encOut.val) = 48

-----------------------------------------------------------------------------
(* Properties of repeated Encrypt calls (SpecCalls) *)

\* C22: every Encrypt call of the AES-CBC, AES-CTR, AES-GCM and ChaCha20
\* strategies uses a freshly generated key and a freshly generated IV/nonce:
\* no two calls, whether made through two MaybeEncrypt calls or on the same
\* strategy instance, share the key or the IV/nonce.
C22_FreshKeyAndIV ==
    \A i, j \in 1..Len(encCalls) :
        i # j => /\ encCalls[i].key # encCalls[j].key
                 /\ encCalls[i].iv # encCalls[j].iv

-----------------------------------------------------------------------------------------------------------------------------------------------------
(* GenerateSignalVector as a function (Spec, SpecGen64) *)

\* the vector of a registry and a LogData, from these two alone
VectorOf(generators, logData) ==
    [i \in 1..Len(generators) |-> GenerateSignal(generators[i], logData)]

\* with real numbers in the place of float64, the vector a call returned is
\* the vector of its registry and its LogData
RealSameInputsSameVector ==
    last.op = "GenerateSignalVector" =>
        last.vector = VectorOf(processors[last.proc].generators, last.logData)

\* a step that returns a vector changes no registry and no display name
VectorStepChangesNothing ==
    (last'.op = "GenerateSignalVector") =>
        /\ processors' = processors
        /\ signalGeneratorNames' = signalGeneratorNames
        /\ added' = added

\* the parts of C24 that hold: the frame, and the function of exact arithmetic
PureUpToRounding == [](RealSameInputsSameVector) /\ [][VectorStepChangesNothing]_vars

\* C24: GenerateSignalVector is a pure function of (registry, logData): two
\* calls with the same registry and the same LogData return equal vectors
\* whatever calls were made in between.  Here the registry and the LogData are
\* fixed, so every call returns what the call before returned.
C24_SameVectorAgain ==
    [][(genSignal.called /\ genSignal'.called) => genSignal'.val = genSignal.val]_vars

-----------------------------------------------------------------------------
(* Properties of main's loops (SpecMain) *)

\* the AnomalyInputs due for logs 1..j of a field, in log order: one for
\* every log that parses
RECURSIVE DueForLogs(_, _)
DueForLogs(fieldName, j) ==
    IF j = 0 THEN <<>>
    ELSE LET ret == ParseLogOf(cliConfig.DBType, logs[j])
             gens == FieldGenerators(cliConfig.SelectedSignals, fieldName)
         IN  DueForLogs(fieldName, j - 1)
                \o (IF ret.err # NoError THEN <<>>
                    ELSE <<BuildAnomalyInput(fieldName, ret.logData, VectorOf(gens, ret.logData))>>)

\* the AnomalyInputs due for the fields 1..i, all logs each
RECURSIVE DueForFields(_)
DueForFields(i) ==
    IF i = 0 THEN <<>>
    ELSE DueForFields(i - 1) \o DueForLogs(cliConfig.SelectedFields[i], Len(logs))

\* what is due at a position of the loops
Due ==
    CASE pc.at = "done"  -> DueForFields(Len(cliConfig.SelectedFields))
      [] pc.at = "field" -> DueForFields(pc.field - 1)
      [] pc.at = "log"   -> DueForFields(pc.field - 1)
                               \o DueForLogs(cliConfig.SelectedFields[pc.field], pc.log - 1)

\* C23: per-record failures never abort a batch: for every sequence of raw
\* logs and every selected field, the program emits exactly one AnomalyInput
\* per raw log that parses, in log order, and none for a raw log that fails
\* to parse; after a failed parse it still processes every later log and
\* every later field, so at the end everything due has been emitted.
C23_BatchNeverAborted == emitted = Due

\* the batch is over; its first log failed to parse and a later log of the
\* first field and a log of the second field were emitted
C23_Witness ==
    /\ pc.at = "done"
    /\ Len(cliConfig.SelectedFields) = 2
    /\ Len(logs) = 3
    /\ ParseLogOf(cliConfig.DBType, logs[1]).err # NoError
    /\ ParseLogOf(cliConfig.DBType, logs[2]).err # NoError
    /\ ParseLogOf(cliConfig.DBType, logs[3]).err = NoError
    /\ Len(emitted) = 2
    /\ emitted[1].Column = "bio"
    /\ emitted[2].Column = "email"

-----------------------------------------------------------------------------
(* Properties of the wizard (SpecWiz, SpecWizPath) *)

\* the steps of the history followed by the current step
Trail == Append(model.previousSteps, model.step)

\* GetConfig answers with the configuration exactly when the program ended in
\* FinishedStep, and with the error and an empty Config otherwise
C25_ConfigOnlyWhenFinished ==
    getConfig.called =>
        IF model.step = FinishedStep
        THEN getConfig.err = NoError /\ getConfig.config = model.config
        ELSE getConfig.err = "configuration cancelled" /\ getConfig.config = ZeroConfig

\* a step into FinishedStep is the Enter of ConfigSummaryStep
C25_FinishedByEnter ==
    (model'.step = FinishedStep /\ model.step # FinishedStep) =>
        /\ model.step = ConfigSummaryStep
        /\ model' = Update(model, "enter").m

\* C25: GetConfig returns a configuration only if the wizard ended in
\* FinishedStep, and FinishedStep is entered only by Enter at
\* ConfigSummaryStep; after a key sequence that ends with ctrl+c or q at any
\* other step GetConfig returns the error "configuration cancelled" and an
\* empty Config.
C25_Cancelled == [](C25_ConfigOnlyWhenFinished) /\ [][C25_FinishedByEnter]_vars

\* the user quit at the summary, one Enter before the end
C25_Witness ==
    /\ getConfig.called
    /\ model.step = ConfigSummaryStep
    /\ model.config.RowCount > 0
    /\ getConfig.err = "configuration cancelled"

\* the elements of a sequence
Range(seq) == {seq[k] : k \in 1..Len(seq)}

\* a configuration main can work with
ValidConfig(c) ==
    /\ c.DBType \in {"oracle", "postgres"}
    /\ c.SelectedFields # <<>>
    /\ c.SelectedSignals # <<>>
    /\ c.RowCount > 0
    /\ 0 <= c.EncryptionPercentage /\ c.EncryptionPercentage <= 100
    /\ c.EncryptionType \in {EncryptionTypeNone, EncryptionTypeAES, EncryptionTypeChaCha20}
    /\ c.EncryptionType = EncryptionTypeNone => c.EncryptionPercentage = 0
    /\ c.EncryptionType = EncryptionTypeAES =>
          /\ GetEncryptionConfig(c).AESMode \in {"CBC", "CTR", "GCM"}
          /\ GetEncryptionConfig(c).KeySize \in {16, 24, 32}
    /\ GetEncryptor(GetEncryptionConfig(c), [reads |-> 0, failAt |-> 0]).err = NoError

\* the configuration holds what the lists and the text inputs show
ConfigAsSelected(m) ==
    /\ m.config.DBType = dbOptions[m.dbCursor + 1]
    /\ Range(m.config.SelectedFields) = {fieldOptions[i + 1] : i \in m.fieldCursors}
    /\ Len(m.config.SelectedFields) = Cardinality(m.fieldCursors)
    /\ Range(m.config.SelectedSignals) = {signalOptions[i + 1] : i \in m.signalCursors}
    /\ Len(m.config.SelectedSignals) = Cardinality(m.signalCursors)
    /\ m.config.EncryptionType = encryptionOptions[m.encryptionCursor + 1]
    /\ m.config.RowCount = Atoi(m.rowCountInput).val
    /\ m.config.EncryptionType # EncryptionTypeNone =>
          m.config.EncryptionPercentage = Atoi(m.encryptionPercentage).val
    /\ m.config.EncryptionType = EncryptionTypeAES =>
          /\ m.config.AESMode = aesModeOptions[m.aesModeCursor + 1]
          /\ m.config.AESKeyBitSize = aesKeyBitSizeOptions[m.aesKeyBitSizeCursor + 1]

Forward ==
    { <<DBSelectionStep, FieldSelectionStep>>, <<FieldSelectionStep, SignalSelectionStep>>,
      <<SignalSelectionStep, EncryptionSelectionStep>>,
      <<EncryptionSelectionStep, AESModeStep>>, <<EncryptionSelectionStep, RowCountStep>>,
      <<EncryptionSelectionStep, EncryptionPercentageStep>>, <<AESModeStep, AESKeyBitSizeStep>>,
      <<AESKeyBitSizeStep, EncryptionPercentageStep>>, <<EncryptionPercentageStep, RowCountStep>>,
      <<RowCountStep, ConfigSummaryStep>>, <<ConfigSummaryStep, FinishedStep>> }

\* Esc, like Backspace, returns to the top of the history and pops it, and
\* changes nothing else; at DBSelectionStep they change nothing
BackPops(msg) ==
    LET back == Update(model, msg)
        n    == Len(model.previousSteps)
    IN  /\ back.cmd = "nil"
        /\ IF model.step = DBSelectionStep THEN back.m = model
           ELSE back.m = [model EXCEPT !.step = model.previousSteps[n],
                                       !.previousSteps = SubSeq(model.previousSteps, 1, n - 1)]

\* C27: the back-navigation history is the path taken from the first step:
\* previousSteps is empty exactly when the current step is DBSelectionStep, it
\* contains no step twice, its top is the step from which the current step was
\* entered, Esc/Backspace moves to that step and pops it, and Esc/Backspace at
\* DBSelectionStep changes nothing.
C27_HistoryIsPath ==
    /\ (model.previousSteps = <<>>) <=> (model.step = DBSelectionStep)
    /\ Trail[1] = DBSelectionStep
    /\ \A i, j \in 1..Len(Trail) : i # j => Trail[i] # Trail[j]
    /\ \A i \in 1..(Len(Trail) - 1) : <<Trail[i], Trail[i + 1]>> \in Forward
    /\ BackPops("esc")
    /\ BackPops("backspace")

\* the user came back from the signal selection to the field selection
C27_Witness ==
    /\ model.step = FieldSelectionStep
    /\ model.previousSteps = <<DBSelectionStep>>
    /\ model.config.SelectedFields # <<>>
    /\ model.config.SelectedSignals = <<>>

\* the steps of the trail after EncryptionSelectionStep, up to RowCountStep
RECURSIVE UpToRowCount(_)
UpToRowCount(steps) ==
    IF steps = <<>> THEN <<>>
    ELSE IF Head(steps) = RowCountStep THEN <<>>
    ELSE <<Head(steps)>> \o UpToRowCount(Tail(steps))

AfterEncryption == UpToRowCount(SubSeq(Trail, 5, Len(Trail)))

\* C28: the steps between the encryption selection and the row count depend on
\* the encryption type confirmed last only: none for None, whose percentage is
\* set to 0; AESModeStep, AESKeyBitSizeStep, EncryptionPercentageStep for AES;
\* EncryptionPercentageStep for ChaCha20; and EncryptionModeStep is never reached.
C28_EncryptionPath ==
    /\ EncryptionModeStep \notin Range(Trail)
    /\ RowCountStep \in Range(Trail) =>
          CASE model.config.EncryptionType = EncryptionTypeNone ->
                  AfterEncryption = <<>> /\ model.config.EncryptionPercentage = 0
            [] model.config.EncryptionType = EncryptionTypeAES ->
                  AfterEncryption = <<AESModeStep, AESKeyBitSizeStep, EncryptionPercentageStep>>
            [] model.config.EncryptionType = EncryptionTypeChaCha20 ->
                  AfterEncryption = <<EncryptionPercentageStep>>
            [] OTHER -> FALSE

\* the row count is asked after the three steps of AES
C28_Witness ==
    /\ model.step = RowCountStep
    /\ model.config.EncryptionType = EncryptionTypeAES
    /\ model.previousSteps = <<DBSelectionStep, FieldSelectionStep, SignalSelectionStep,
                               EncryptionSelectionStep, AESModeStep, AESKeyBitSizeStep,
                               EncryptionPercentageStep>>

\* "All" is not selected together with a specific signal, and what was
\* confirmed is [All] or some of the specific signals
C29_NeverTogether ==
    /\ ~(0 \in model.signalCursors /\ model.signalCursors \cap {1, 2} # {})
    /\ model.config.SelectedSignals \in
          { <<>>, <<SignalTypeAll>>, <<SignalTypeLevenshtein>>, <<SignalTypeEntropy>>,
            <<SignalTypeLevenshtein, SignalTypeEntropy>> }
    /\ model.step > SignalSelectionStep => model.config.SelectedSignals # <<>>

\* a step that selects "All" leaves it alone, a step that touches a specific
\* signal leaves "All" out
C29_TogglesClear ==
    /\ (0 \notin model.signalCursors /\ 0 \in model'.signalCursors) => model'.signalCursors = {0}
    /\ (model'.signalCursors \cap {1, 2} # model.signalCursors \cap {1, 2}
           /\ model'.signalCursors # {0}) => 0 \notin model'.signalCursors

\* C29: the "All" option and the specific signals (Levenshtein, Entropy) are
\* never selected together: toggling "All" on clears every other selection,
\* toggling a specific signal clears "All", so the confirmed SelectedSignals
\* is exactly [All] or a non-empty subset of the specific signals.
C29_AllOrSpecific == [](C29_NeverTogether) /\ [][C29_TogglesClear]_vars

\* both specific signals were confirmed
C29_Witness ==
    /\ model.step = EncryptionSelectionStep
    /\ model.signalCursors = {1, 2}
    /\ model.config.SelectedSignals = <<SignalTypeLevenshtein, SignalTypeEntropy>>

\* the message a rejected Enter sets at a step
ErrorOf(step) ==
    CASE step = FieldSelectionStep -> "please select at least one field"
      [] step = SignalSelectionStep -> "please select at least one signal type"
      [] step = EncryptionPercentageStep -> "please enter a valid percentage (0-100)"
      [] step = RowCountStep -> "please enter a valid positive number"
      [] OTHER -> NoError

\* C30: whenever the wizard shows a validation error at a step, that error was
\* produced by a rejected Enter at that same step since the step was last
\* entered; it is not shown at any other step reached afterwards by back or
\* forward navigation.
C30_ErrorOfThisStep ==
    (ShowsError(model.step) /\ model.err # NoError) =>
        /\ rejection.rejected
        /\ rejection.step = model.step
        /\ model.err = ErrorOf(model.step)

=============================================================================
